---- MODULE Spec2Model ----
(***************************************************************************)
(* A model of the mygurukul library scripts.                               *)
(*                                                                         *)
(*  - WalkSpec: the metadata generators (scripts/create_*_metadata.py and  *)
(*    create_library_metadata_FIXED.py): the __main__ block, configure_api,*)
(*    process_directory and generate_metadata_for_file, run once or twice  *)
(*    in a row over the same directory.                                    *)
(*  - IsoSpec: the chapter isolator (process_caraka_chapter.py and         *)
(*    process_caraka_chapter_ocr.py): isolate_chapter and main.            *)
(*  - SegSpec: the verse segmenter (VersePatternProcessor of               *)
(*    scripts/generate_dictionary_from_metadata.py), one line per step.    *)
(*  - ManSpec: the chapter manifest builders                               *)
(*    (scripts/generate_chapter_manifest*.py), one division folder per     *)
(*    step.                                                                *)
(*  - CleanSpec: clean_response_text of the metadata generators.           *)
(*                                                                         *)
(* Paths and texts are sequences of tokens.  A path token is either the    *)
(* literal ".pdf" / ".json" or a piece of text that does not contain       *)
(* ".pdf"; a text token is one character.                                  *)
(***************************************************************************)
EXTENDS Integers, Sequences, FiniteSets, TLC

VARIABLES
    \* ---- metadata generators ----
    script,        \* which generator script is run
    apiKey,        \* os.environ.get("GOOGLE_API_KEY"): "unset", "empty" or "set"
    depsOk,        \* outcome of check_dependencies()
    rootExists,    \* Path(ROOT_DIRECTORY).exists()
    disk,          \* the set of paths that exist under the root directory
    diskAtStart,   \* disk when the current run of the script was started
    run,           \* 1 for the first run of the script, 2 for the second, ...
    pc,            \* position of the script
    exitStatus,    \* exit status of the process once pc = "exited"
    pdf_files,     \* process_directory: the sorted list of PDF paths
    idx,           \* process_directory: 1-based position of the for loop
    processed,     \* process_directory: tally
    skipped,       \* process_directory: tally
    failed,        \* process_directory: tally
    outcome,       \* what happened inside the latest generate_metadata_for_file
    log,           \* events of the current run, in order
    \* ---- chapter isolator ----
    variant,       \* "plain" (process_caraka_chapter) or "ocr"
    full_text,     \* the extracted document text, a sequence of characters
    chapter_number,\* CHAPTER_TO_EXTRACT
    chapter_text,  \* the value returned by isolate_chapter
    isoPc,         \* position of main()
    outFile,       \* content of chapter_<N>_text.txt, NoFile when not written
    \* ---- verse segmenter ----
    lookup_table,  \* self.lookup_table['scriptures']: name -> profile
    scripture_name,\* the scripture_name argument of extract_verses
    strategy,      \* the parsing strategy extract_verses dispatches on
    lines,         \* text.split('\n'): the raw lines read so far
    verses,        \* the records appended so far
    segPc,         \* position of the segmenter
    \* ---- manifest builders ----
    builder,       \* which generate_chapter_manifest*.py is run
    manRoot,       \* Path(scripture_root).exists()
    tree,          \* the directories under the root: folder name -> files
    folders,       \* the division folders in the order the loop takes them
    sec_idx,       \* 1-based position of the loop over division folders
    manifest,      \* the manifest dict being built
    manPc,         \* position of generate_chapter_manifest and of the main flow
    validated,     \* validate_manifest was called and returned True
    output,        \* the manifest file: whether written, and the manifest dumped
    \* ---- clean_response_text ----
    response_text, \* response.text, a sequence of characters
    cleaned_response, \* the value returned by clean_response_text
    cleanPc,       \* position of the caller
    \* ---- practicalAdvice post-processing ----
    practical_advice, \* metadata["deeperInsights"]["practicalAdvice"] as parsed
    fixed_advice,  \* the list stored back into the metadata
    advPc,         \* position of the post-processing
    \* ---- chapterize_ramayana ----
    ram_lines,     \* f.readlines() of the Ramayana text file
    ram_idx,       \* 1-based position of the loop over the lines
    current,       \* (current_kanda, current_sarga)
    current_sarga_lines, \* the lines collected for the current sarga
    ram_chapters,  \* chapters: (kanda, sarga) -> the text stored, as its lines
    ramPc          \* position of parse_ramayana_text

walkVars == <<script, apiKey, depsOk, rootExists, disk, diskAtStart, run, pc,
              exitStatus, pdf_files, idx, processed, skipped, failed, outcome, log>>
isoVars == <<variant, full_text, chapter_number, chapter_text, isoPc, outFile>>
segVars == <<lookup_table, scripture_name, strategy, lines, verses, segPc>>
manVars == <<builder, manRoot, tree, folders, sec_idx, manifest, manPc,
            validated, output>>
cleanVars == <<response_text, cleaned_response, cleanPc>>
adviceVars == <<practical_advice, fixed_advice, advPc>>
ramVars == <<ram_lines, ram_idx, current, current_sarga_lines, ram_chapters, ramPc>>
restVars == <<adviceVars, ramVars>>
laterVars == <<segVars, manVars, cleanVars, restVars>>
vars == <<walkVars, isoVars, laterVars>>

(***************************************************************************)
(* Bounds                                                                  *)
(***************************************************************************)
MaxFiles == 3      \* PDF files that can be present under the root directory
MaxRuns == 2       \* consecutive runs of a generator over the same directory

(***************************************************************************)
(* Paths                                                                   *)
(***************************************************************************)
StemNames == <<"Chapter_1", "Chapter_2", "Chapter_3", "Chapter_4", "Chapter_5">>

\* A chapter PDF in an ordinary section folder: ".pdf" occurs only as suffix.
PlainPdf(i) == <<"Book_1/", StemNames[i], ".pdf">>

\* A chapter PDF in a folder whose own name contains ".pdf".
DottedPdf == <<"Scans", ".pdf", "_split/", "Chapter_1", ".pdf">>

\* Every PDF that may exist, in the order sorted() gives the paths.
PdfCandidates == [i \in 1..MaxFiles |-> IF i < MaxFiles THEN PlainPdf(i) ELSE DottedPdf]

\* pathlib: pdf_path.with_suffix('.json') swaps the final suffix only.
with_suffix_json(p) == SubSeq(p, 1, Len(p) - 1) \o <<".json">>

\* str: pdf_path.replace('.pdf', '.json') replaces every occurrence.
replace_pdf_json(p) == [i \in 1..Len(p) |-> IF p[i] = ".pdf" THEN ".json" ELSE p[i]]

\* The sibling metadata file of X.pdf is X.json (same stem).
Sibling(p) == SubSeq(p, 1, Len(p) - 1) \o <<".json">>

\* sorted(root_path.rglob("*.pdf")): the PDFs on disk, in sorted order.
RECURSIVE SortedPdfs(_, _)
SortedPdfs(d, i) ==
    IF i > Len(PdfCandidates) THEN <<>>
    ELSE (IF PdfCandidates[i] \in d THEN <<PdfCandidates[i]>> ELSE <<>>)
         \o SortedPdfs(d, i + 1)

Range(s) == {s[i] : i \in 1..Len(s)}

(***************************************************************************)
(* Scripts                                                                 *)
(***************************************************************************)
\* __main__ catches the exception and calls exit(1); walker of scripts/.
ExitScripts == {"create_arthasastra_metadata"}
\* __main__ prints and re-raises; walker of scripts/.
RaiseScripts == {"create_aryabhatia_metadata"}
\* __main__ first runs check_dependencies(), then as RaiseScripts.
DepCheckScripts == {"create_bhagavad_gita_metadata"}
\* the library generator at the top of the repository.
FixedScripts == {"create_library_metadata_FIXED"}
Scripts == ExitScripts \cup RaiseScripts \cup DepCheckScripts \cup FixedScripts

KeyValues == {"unset", "empty", "set"}

\* What can happen inside one generate_metadata_for_file call.
Outcomes == {"unreadable", "api_raises", "empty_response", "bad_json",
             "write_fails", "ok"}

Event(e, p) == [ev |-> e, path |-> p]
NoPath == <<>>

(***************************************************************************)
(* Chapter isolator constants (used from IsoSpec)                          *)
(***************************************************************************)
None == "None"
NoFile == "NoFile"

(***************************************************************************)
(* The parts of the model that a specification leaves alone                *)
(***************************************************************************)
SegIdle ==
    /\ lookup_table = <<>> /\ scripture_name = ""
    /\ strategy = "standard" /\ lines = <<>> /\ verses = <<>> /\ segPc = "idle"

ManIdle ==
    /\ builder = "generate_chapter_manifest" /\ manRoot = FALSE /\ tree = <<>>
    /\ folders = <<>> /\ sec_idx = 0
    /\ manifest = [totalChapters |-> 0, sections |-> <<>>] /\ manPc = "idle"
    /\ validated = FALSE
    /\ output = [written |-> FALSE,
                 manifest |-> [totalChapters |-> 0, sections |-> <<>>]]

CleanIdle ==
    /\ response_text = <<>> /\ cleaned_response = <<>> /\ cleanPc = "idle"

AdviceIdle ==
    /\ practical_advice = <<>> /\ fixed_advice = <<>> /\ advPc = "idle"

RamIdle ==
    /\ ram_lines = <<>> /\ ram_idx = 0 /\ current = <<0, 0>>
    /\ current_sarga_lines = <<>> /\ ram_chapters = <<>> /\ ramPc = "idle"

RestIdle == AdviceIdle /\ RamIdle

(***************************************************************************)
(* generate_metadata_for_file                                              *)
(***************************************************************************)
\* generate_metadata_for_file without its except clauses.
generate_metadata_for_file_NoExcept(s, p, o, d) ==
    LET called == IF o = "unreadable" THEN <<>> ELSE <<Event("call", p)>>
        json_path == replace_pdf_json(p)
    IN  IF o = "ok"
        THEN [events |-> called \o <<Event("write", json_path)>>,
              disk |-> d \cup {json_path},
              ret |-> "metadata"]
        ELSE [events |-> called, disk |-> d, ret |-> "raise"]

\* generate_metadata_for_file repeating a failed API call once.
generate_metadata_for_file_Retry(s, p, o, d) ==
    LET called == IF o = "unreadable" THEN <<>> ELSE <<Event("call", p)>>
        json_path == replace_pdf_json(p)
        onFailure == IF s \in FixedScripts THEN "raise" ELSE "None"
    IN  IF o = "ok"
        THEN [events |-> called \o <<Event("write", json_path)>>,
              disk |-> d \cup {json_path},
              ret |-> "metadata"]
        ELSE [events |-> called \o called, disk |-> d, ret |-> onFailure]

\* generate_metadata_for_file saving the raw response when it cannot be parsed.
generate_metadata_for_file_SaveUnparsed(s, p, o, d) ==
    LET called == IF o = "unreadable" THEN <<>> ELSE <<Event("call", p)>>
        json_path == replace_pdf_json(p)
        onFailure == IF s \in FixedScripts THEN "raise" ELSE "None"
    IN  IF o = "ok"
        THEN [events |-> called \o <<Event("write", json_path)>>,
              disk |-> d \cup {json_path},
              ret |-> "metadata"]
        ELSE IF o \in {"empty_response", "bad_json"}
        THEN [events |-> called \o <<Event("write", json_path)>>,
              disk |-> d \cup {json_path},
              ret |-> onFailure]
        ELSE [events |-> called, disk |-> d, ret |-> onFailure]

\* The events of one call, the files it leaves on disk and how it returns:
\* "metadata" (truthy), "None", or "raise".
generate_metadata_for_file(s, p, o, d) ==
    LET called == IF o = "unreadable" THEN <<>> ELSE <<Event("call", p)>>
        json_path == replace_pdf_json(p)
        onFailure == IF s \in FixedScripts THEN "raise" ELSE "None"
    IN  IF o = "ok"
        THEN [events |-> called \o <<Event("write", json_path)>>,
              disk |-> d \cup {json_path},
              ret |-> "metadata"]
        ELSE [events |-> called, disk |-> d, ret |-> onFailure]

(***************************************************************************)
(* __main__ and process_directory                                          *)
(***************************************************************************)
FirstPc(s) == IF s \in DepCheckScripts THEN "check_dependencies" ELSE "configure_api"

\* A skip check that tests X.pdf.json instead of X.json.
SkipCheckPath_Appended(s, p) == p \o <<".json">>

\* The path whose existence makes the walker skip a PDF.
SkipCheckPath(s, p) ==
    IF s \in FixedScripts THEN replace_pdf_json(p) ELSE with_suffix_json(p)

\* The rate-limit test after a file, on the tallies after that file.
SleepDue(s, ret, p, f, sk, n) ==
    IF s \in FixedScripts
    THEN ret = "metadata" /\ p < n - sk
    ELSE p + f < n - sk

check_dependencies ==
    /\ pc = "check_dependencies"
    /\ IF depsOk
       THEN pc' = "configure_api" /\ UNCHANGED exitStatus
       ELSE pc' = "exited" /\ exitStatus' = 1
    /\ UNCHANGED <<script, apiKey, depsOk, rootExists, disk, diskAtStart, run,
                   pdf_files, idx, processed, skipped, failed, outcome, log>>
    /\ UNCHANGED <<isoVars, laterVars>>

\* configure_api testing `api_key is None` instead of `not api_key`.
KeyMissing_NoneOnly(k) == k = "unset"

\* `not api_key`
KeyMissing(k) == k \in {"unset", "empty"}

configure_api ==
    /\ pc = "configure_api"
    /\ IF KeyMissing(apiKey)
       THEN pc' = "exited" /\ exitStatus' = 1
       ELSE pc' = "process_directory" /\ UNCHANGED exitStatus
    /\ UNCHANGED <<script, apiKey, depsOk, rootExists, disk, diskAtStart, run,
                   pdf_files, idx, processed, skipped, failed, outcome, log>>
    /\ UNCHANGED <<isoVars, laterVars>>

\* process_directory up to the for loop.
process_directory ==
    /\ pc = "process_directory"
    /\ IF ~rootExists
       THEN /\ pc' = "exited" /\ exitStatus' = 0
            /\ UNCHANGED <<pdf_files, idx, processed, skipped, failed>>
       ELSE LET files == SortedPdfs(disk, 1) IN
            /\ pdf_files' = files
            /\ IF files = <<>>
               THEN /\ pc' = "exited" /\ exitStatus' = 0
                    /\ UNCHANGED <<idx, processed, skipped, failed>>
               ELSE /\ pc' = "walk" /\ UNCHANGED exitStatus
                    /\ idx' = 1
                    /\ processed' = 0 /\ skipped' = 0 /\ failed' = 0
    /\ UNCHANGED <<script, apiKey, depsOk, rootExists, disk, diskAtStart, run,
                   outcome, log>>
    /\ UNCHANGED <<isoVars, laterVars>>

\* The for loop with the skip branch going on to the next file before it
\* counts the file.
walk_file_SkipUncounted ==
    /\ pc = "walk"
    /\ idx <= Len(pdf_files)
    /\ LET p == pdf_files[idx] IN
       IF SkipCheckPath(script, p) \in disk
       THEN /\ skipped' = skipped
            /\ log' = Append(log, Event("skip", p))
            /\ idx' = idx + 1
            /\ UNCHANGED <<processed, failed, disk, outcome, pc, exitStatus>>
       ELSE \E o \in Outcomes :
            LET r == generate_metadata_for_file(script, p, o, disk)
                ok == r.ret = "metadata"
                p2 == IF ok THEN processed + 1 ELSE processed
                f2 == IF ok THEN failed ELSE failed + 1
            IN  /\ outcome' = o
                /\ disk' = r.disk
                /\ IF r.ret = "raise" /\ script \notin FixedScripts
                   THEN \* no try around the call: the exception reaches __main__
                        /\ pc' = "exited" /\ exitStatus' = 1
                        /\ log' = log \o r.events
                        /\ UNCHANGED <<processed, failed, skipped, idx>>
                   ELSE /\ processed' = p2
                        /\ failed' = f2
                        /\ skipped' = skipped
                        /\ log' = log \o r.events
                              \o <<Event(IF ok THEN "processed" ELSE "failed", p)>>
                              \o (IF SleepDue(script, r.ret, p2, f2, skipped, Len(pdf_files))
                                  THEN <<Event("sleep", NoPath)>> ELSE <<>>)
                        /\ idx' = idx + 1
                        /\ UNCHANGED <<pc, exitStatus>>
    /\ UNCHANGED <<script, apiKey, depsOk, rootExists, diskAtStart, run, pdf_files>>
    /\ UNCHANGED <<isoVars, laterVars>>

\* One iteration of the for loop of process_directory.
walk_file ==
    /\ pc = "walk"
    /\ idx <= Len(pdf_files)
    /\ LET p == pdf_files[idx] IN
       IF SkipCheckPath(script, p) \in disk
       THEN /\ skipped' = skipped + 1
            /\ log' = Append(log, Event("skip", p))
            /\ idx' = idx + 1
            /\ UNCHANGED <<processed, failed, disk, outcome, pc, exitStatus>>
       ELSE \E o \in Outcomes :
            LET r == generate_metadata_for_file(script, p, o, disk)
                ok == r.ret = "metadata"
                p2 == IF ok THEN processed + 1 ELSE processed
                f2 == IF ok THEN failed ELSE failed + 1
            IN  /\ outcome' = o
                /\ disk' = r.disk
                /\ IF r.ret = "raise" /\ script \notin FixedScripts
                   THEN \* no try around the call: the exception reaches __main__
                        /\ pc' = "exited" /\ exitStatus' = 1
                        /\ log' = log \o r.events
                        /\ UNCHANGED <<processed, failed, skipped, idx>>
                   ELSE /\ processed' = p2
                        /\ failed' = f2
                        /\ skipped' = skipped
                        /\ log' = log \o r.events
                              \o <<Event(IF ok THEN "processed" ELSE "failed", p)>>
                              \o (IF SleepDue(script, r.ret, p2, f2, skipped, Len(pdf_files))
                                  THEN <<Event("sleep", NoPath)>> ELSE <<>>)
                        /\ idx' = idx + 1
                        /\ UNCHANGED <<pc, exitStatus>>
    /\ UNCHANGED <<script, apiKey, depsOk, rootExists, diskAtStart, run, pdf_files>>
    /\ UNCHANGED <<isoVars, laterVars>>

\* The end of the for loop: the final summary is printed and the script ends.
summary ==
    /\ pc = "walk"
    /\ idx > Len(pdf_files)
    /\ pc' = "exited" /\ exitStatus' = 0
    /\ log' = Append(log, Event("summary", NoPath))
    /\ UNCHANGED <<script, apiKey, depsOk, rootExists, disk, diskAtStart, run,
                   pdf_files, idx, processed, skipped, failed, outcome>>
    /\ UNCHANGED <<isoVars, laterVars>>

\* The same script is started again over the same directory.
run_again ==
    /\ pc = "exited"
    /\ exitStatus = 0
    /\ run < MaxRuns
    /\ run' = run + 1
    /\ pc' = FirstPc(script)
    /\ diskAtStart' = disk
    /\ log' = <<>>
    /\ pdf_files' = <<>> /\ idx' = 0
    /\ processed' = 0 /\ skipped' = 0 /\ failed' = 0
    /\ outcome' = "none"
    /\ UNCHANGED <<script, apiKey, depsOk, rootExists, disk, exitStatus>>
    /\ UNCHANGED <<isoVars, laterVars>>

IsoIdle ==
    /\ variant = "plain" /\ full_text = <<>> /\ chapter_number = 0
    /\ chapter_text = None /\ isoPc = "idle" /\ outFile = NoFile

\* The JSON files that may already exist for a set of PDFs.
JsonCandidates(pdfs) ==
    {with_suffix_json(p) : p \in pdfs} \cup {replace_pdf_json(p) : p \in pdfs}

WalkInit ==
    /\ script \in Scripts
    /\ apiKey \in KeyValues
    /\ depsOk \in (IF script \in DepCheckScripts THEN BOOLEAN ELSE {TRUE})
    /\ rootExists \in BOOLEAN
    /\ \E pdfs \in SUBSET Range(PdfCandidates) :
       \E jsons \in SUBSET JsonCandidates(pdfs) :
          disk = IF rootExists THEN pdfs \cup jsons ELSE {}
    /\ diskAtStart = disk
    /\ run = 1
    /\ pc = FirstPc(script)
    /\ exitStatus = 0
    /\ pdf_files = <<>> /\ idx = 0
    /\ processed = 0 /\ skipped = 0 /\ failed = 0
    /\ outcome = "none"
    /\ log = <<>>
    /\ IsoIdle /\ SegIdle /\ ManIdle /\ CleanIdle /\ RestIdle

WalkNext ==
    \/ check_dependencies
    \/ configure_api
    \/ process_directory
    \/ walk_file
    \/ summary
    \/ run_again

WalkSpec == WalkInit /\ [][WalkNext]_vars

(***************************************************************************)
(* Properties of the metadata generators                                   *)
(***************************************************************************)
IsVisit(e) == e.ev \in {"skip", "processed", "failed"}
IsWork(e) == e.ev \in {"call", "write", "processed", "failed"}

\* The files the for loop has finished with, in order.
Visits(l) == LET v == SelectSeq(l, IsVisit) IN [i \in 1..Len(v) |-> v[i].path]

Count(l, e, p) == Cardinality({i \in 1..Len(l) : l[i].ev = e /\ l[i].path = p})

\* No API call, no write and no tally other than "skipped" for PDF p.
Untouched(l, p) ==
    \A i \in 1..Len(l) :
        IsWork(l[i]) => l[i].path \notin {p, replace_pdf_json(p), with_suffix_json(p)}

SummaryReached == Len(log) > 0 /\ log[Len(log)].ev = "summary"

\* C1: a PDF whose sibling .json exists when the walker reaches it is not
\* handed to generate_metadata_for_file (no API call, no write); the step
\* increments exactly `skipped` and leaves `processed` and `failed` alone.
C1_SiblingExistsIsSkipped ==
    [][ (pc = "walk" /\ idx <= Len(pdf_files) /\ Sibling(pdf_files[idx]) \in disk)
        => /\ skipped' = skipped + 1
           /\ processed' = processed
           /\ failed' = failed
           /\ disk' = disk
           /\ log' = Append(log, Event("skip", pdf_files[idx])) ]_vars

TestedJson(s, p) ==
    IF s = "create_library_metadata_FIXED"
    THEN [i \in 1..Len(p) |-> IF p[i] = ".pdf" THEN ".json" ELSE p[i]]
    ELSE Sibling(p)

\* The listed PDFs whose tested .json is missing in d.
Missing(d) == {i \in 1..Len(pdf_files) : TestedJson(script, pdf_files[i]) \notin d}

C3_VisitsArePrefix ==
    /\ pc = "walk" => Visits(log) = SubSeq(pdf_files, 1, idx - 1)
    /\ (pc = "exited" /\ pdf_files # <<>>)
         => (SummaryReached /\ Visits(log) = pdf_files /\ exitStatus = 0)

C3_WalkCompletes ==
    /\ []C3_VisitsArePrefix
    /\ [][pc = "walk" => (pc' = "walk" \/ (pc' = "exited" /\ exitStatus' = 0))]_vars
    /\ (pc = "walk") ~> (pc = "exited" /\ SummaryReached)

\* A finished walk in which a file failed for each kind of reason is
\* witnessed one kind at a time; here: the API call raised on the last file
\* after an earlier failure, and the summary was still reached.
C3_Witness ==
    /\ pc = "exited" /\ SummaryReached
    /\ outcome = "api_raises" /\ failed >= 2 /\ processed >= 1

\* C4: between any two consecutive API calls of one walk the walker sleeps,
\* whether the earlier call succeeded or failed, in every generator.
C4_SleepBetweenCalls ==
    \A i, j \in 1..Len(log) :
        (i < j /\ log[i].ev = "call" /\ log[j].ev = "call")
        => \E k \in (i + 1)..(j - 1) : log[k].ev = "sleep"

\* C5: within one walk at most one API call is issued per PDF; a file whose
\* call, cleaning or parse failed is counted as failed exactly once, is not
\* processed or called again, and the walker moves on to the next file.
C5_OneCallPerFile ==
    /\ \A p \in Range(pdf_files) :
         /\ Count(log, "call", p) <= 1
         /\ Count(log, "failed", p) + Count(log, "processed", p) + Count(log, "skip", p) <= 1
    /\ failed = Cardinality({i \in 1..Len(log) : log[i].ev = "failed"})
    /\ \A i \in 1..Len(log) :
         log[i].ev = "failed" =>
            \A j \in (i + 1)..Len(log) : log[j].path # log[i].path \/ log[j].ev = "sleep"
    /\ pc = "walk" => idx = Len(Visits(log)) + 1

\* A walk that went on to a later file after a failed API call.
C5_Witness ==
    \E i, j \in 1..Len(log) :
        /\ i < j
        /\ log[i].ev = "failed" /\ Count(log, "call", log[i].path) = 1
        /\ log[j].ev = "call"

\* C6: with GOOGLE_API_KEY unset or empty the script fails at startup:
\* process_directory is never entered, nothing is scanned, called or written,
\* and the process ends with a non-zero status.
C6_NoKeyIsFatal ==
    apiKey \in {"unset", "empty"}
    => /\ pc \in {"check_dependencies", "configure_api", "exited"}
       /\ pc = "exited" => exitStatus # 0
       /\ pdf_files = <<>> /\ log = <<>> /\ disk = diskAtStart /\ run = 1

\* The script ended at startup although there were PDFs to work on.
C6_Witness ==
    /\ apiKey = "empty" /\ pc = "exited" /\ exitStatus = 1
    /\ \E p \in Range(PdfCandidates) : p \in disk /\ Sibling(p) \notin disk

\* C7: when the root directory does not exist no per-file work is attempted
\* and the process exits with a non-zero status.
C7_MissingRootExitsNonZero ==
    (~rootExists /\ pc = "exited") => (exitStatus # 0 /\ log = <<>>)

FairWalkSpec == WalkSpec /\ WF_vars(WalkNext)

(***************************************************************************)
(* Chapter isolator: process_caraka_chapter.py, process_caraka_chapter_ocr *)
(***************************************************************************)
MaxSegs == 4       \* pieces a document text is put together from

WORD_CHAPTER == <<"C", "H", "A", "P", "T", "E", "R">>
WORD_Chapter == <<"C", "h", "a", "p", "t", "e", "r">>
WORD_Ch == <<"C", "h">>

\* The pieces of text a document is put together from.
Segments ==
    { <<"C", "H", "A", "P", "T", "E", "R", " ", "5">>,
      <<"c", "h", "a", "p", "t", "e", "r", " ", " ", "6", "\n">>,
      <<"C", "h", ".", "5">>,
      <<"c", "h", " ", "6">>,
      <<"C", "H", "A", "P", "T", "E", "R">>,
      <<" ">>,
      <<"5">>,
      <<"6">> }

ChapterNumbers == {5, 6}

\* re.IGNORECASE: letters are compared after case folding.
Lower(c) ==
    CASE c = "C" -> "c" [] c = "H" -> "h" [] c = "A" -> "a" [] c = "P" -> "p"
      [] c = "T" -> "t" [] c = "E" -> "e" [] c = "R" -> "r" [] OTHER -> c

IsDigit(c) == c \in {"0", "1", "2", "3", "4", "5", "6", "7", "8", "9"}
IsLetter(c) == Lower(c) \in {"c", "h", "a", "p", "t", "e", "r", "x"}
\* \w
IsWordChar(c) == IsDigit(c) \/ IsLetter(c) \/ c = "_"
\* \s
IsSpace(c) == c \in {" ", "\n", "\t"}

DigitChar == <<"0", "1", "2", "3", "4", "5", "6", "7", "8", "9">>

\* f"{chapter_number}": the decimal digits of a non-negative integer.
RECURSIVE Digits(_)
Digits(n) == IF n < 10 THEN <<DigitChar[n + 1]>>
             ELSE Digits(n \div 10) \o <<DigitChar[(n % 10) + 1]>>

\* The number of whitespace characters of t from position i on.
RECURSIVE WsRun(_, _)
WsRun(t, i) == IF i <= Len(t) /\ IsSpace(t[i]) THEN 1 + WsRun(t, i + 1) ELSE 0

\* A marker pattern: <word> \.? \s{minWs,} <num> <tail>, where tail is \b
\* ("b") or the class [:\.\s] ("punct"); dot says whether \.? is present.
Pattern(w, dot, minWs, n, tail) ==
    [word |-> w, dot |-> dot, minWs |-> minWs, num |-> n, tail |-> tail]

\* rf"CHAPTER\s+{n}\b"
ChapterPattern(n) == Pattern(WORD_CHAPTER, FALSE, 1, n, "b")

\* The (start, end) pattern pairs of the OCR isolator, in list order.
OcrPatterns(n) ==
    << <<Pattern(WORD_CHAPTER, FALSE, 1, n, "b"), Pattern(WORD_CHAPTER, FALSE, 1, n + 1, "b")>>,
       <<Pattern(WORD_Chapter, FALSE, 1, n, "b"), Pattern(WORD_Chapter, FALSE, 1, n + 1, "b")>>,
       <<Pattern(WORD_CHAPTER, FALSE, 1, n, "punct"), Pattern(WORD_CHAPTER, FALSE, 1, n + 1, "punct")>>,
       <<Pattern(WORD_Ch, TRUE, 0, n, "b"), Pattern(WORD_Ch, TRUE, 0, n + 1, "b")>> >>

\* Does the pattern match t starting exactly at position i (1-based)?
MatchAt(t, i, pat) ==
    LET w == pat.word
        a == i + Len(w)
        wordOk == /\ a - 1 <= Len(t)
                  /\ \A k \in 1..Len(w) : Lower(t[i + k - 1]) = Lower(w[k])
        b == IF pat.dot /\ a <= Len(t) /\ t[a] = "." THEN a + 1 ELSE a
        ws == WsRun(t, b)
        c == b + ws
        d == Digits(pat.num)
        e == c + Len(d)
        digitsOk == /\ e - 1 <= Len(t)
                    /\ \A k \in 1..Len(d) : t[c + k - 1] = d[k]
        tailOk == IF pat.tail = "b"
                  THEN e > Len(t) \/ ~IsWordChar(t[e])
                  ELSE e <= Len(t) /\ (t[e] \in {":", "."} \/ IsSpace(t[e]))
    IN  wordOk /\ ws >= pat.minWs /\ digitsOk /\ tailOk

\* re.search(pattern, t, re.IGNORECASE).start() + 1, or 0 when there is no match.
Search(t, pat) ==
    LET hits == {i \in 1..Len(t) : MatchAt(t, i, pat)}
    IN  IF hits = {} THEN 0 ELSE CHOOSE i \in hits : \A j \in hits : i <= j

\* full_text[start:] for a 1-based start.
Slice(t, start) == SubSeq(t, start, Len(t))

\* The slicing with the end taken one character too far.
ChapterSlice_IncludesEnd(t, start, endPat) ==
    LET end_match == Search(Slice(t, start), endPat)
    IN  IF end_match # 0
        THEN SubSeq(t, start, start + (end_match - 1))
        ELSE Slice(t, start)

\* The slicing with the end pattern searched in the whole text:
\* full_text[start:end] with end = re.search(end_pattern, full_text).start().
ChapterSlice_WholeText(t, start, endPat) ==
    LET end_match == Search(t, endPat)
    IN  IF end_match # 0
        THEN SubSeq(t, start, end_match - 1)
        ELSE Slice(t, start)

\* The slicing of isolate_chapter once the start pattern has matched at
\* start (1-based): the end pattern is searched in full_text[start:].
ChapterSlice(t, start, endPat) ==
    LET end_match == Search(Slice(t, start), endPat)
    IN  IF end_match # 0
        THEN SubSeq(t, start, start + (end_match - 1) - 1)
        ELSE Slice(t, start)

\* An isolator that falls back to the whole text when the start is absent.
isolate_chapter_plain_Fallback(t, n) ==
    IF t = <<>> THEN None
    ELSE LET start_match == Search(t, ChapterPattern(n))
         IN  IF start_match = 0 THEN t
             ELSE ChapterSlice(t, start_match, ChapterPattern(n + 1))

\* process_caraka_chapter.isolate_chapter
isolate_chapter_plain(t, n) ==
    IF t = <<>> THEN None
    ELSE LET start_match == Search(t, ChapterPattern(n))
         IN  IF start_match = 0 THEN None
             ELSE ChapterSlice(t, start_match, ChapterPattern(n + 1))

\* The loop over the pairs ending the chapter with the first pair's end
\* pattern, whichever pair's start pattern matched.
RECURSIVE isolate_chapter_ocr_from_FirstEnd(_, _, _)
isolate_chapter_ocr_from_FirstEnd(t, n, k) ==
    IF k > Len(OcrPatterns(n)) THEN None
    ELSE LET start_match == Search(t, OcrPatterns(n)[k][1])
         IN  IF start_match # 0
             THEN ChapterSlice(t, start_match, OcrPatterns(n)[1][2])
             ELSE isolate_chapter_ocr_from_FirstEnd(t, n, k + 1)

\* process_caraka_chapter_ocr.isolate_chapter: the pairs from position k on.
RECURSIVE isolate_chapter_ocr_from(_, _, _)
isolate_chapter_ocr_from(t, n, k) ==
    IF k > Len(OcrPatterns(n)) THEN None
    ELSE LET start_match == Search(t, OcrPatterns(n)[k][1])
         IN  IF start_match # 0
             THEN ChapterSlice(t, start_match, OcrPatterns(n)[k][2])
             ELSE isolate_chapter_ocr_from(t, n, k + 1)

isolate_chapter_ocr(t, n) ==
    IF t = <<>> THEN None ELSE isolate_chapter_ocr_from(t, n, 1)

isolate_chapter(v, t, n) ==
    IF v = "ocr" THEN isolate_chapter_ocr(t, n) ELSE isolate_chapter_plain(t, n)

\* `if not chapter_text` / `if not full_text`
Falsy(x) == x = None \/ x = <<>>

\* main(): extract_full_text returned full_text.
iso_extract ==
    /\ isoPc = "extract"
    /\ isoPc' = IF Falsy(full_text) THEN "exited" ELSE "isolate"
    /\ UNCHANGED <<variant, full_text, chapter_number, chapter_text, outFile>>
    /\ UNCHANGED <<walkVars, laterVars>>

\* main(): chapter_text = isolate_chapter(full_text, CHAPTER_TO_EXTRACT)
iso_isolate ==
    /\ isoPc = "isolate"
    /\ chapter_text' = isolate_chapter(variant, full_text, chapter_number)
    /\ isoPc' = IF Falsy(chapter_text') THEN "exited" ELSE "save"
    /\ UNCHANGED <<variant, full_text, chapter_number, outFile>>
    /\ UNCHANGED <<walkVars, laterVars>>

\* main(): the chapter is written to chapter_<N>_text.txt; an error while
\* opening the file is caught and reported.
iso_save ==
    /\ isoPc = "save"
    /\ \E opened \in BOOLEAN :
          outFile' = IF opened THEN chapter_text ELSE NoFile
    /\ isoPc' = "exited"
    /\ UNCHANGED <<variant, full_text, chapter_number, chapter_text>>
    /\ UNCHANGED <<walkVars, laterVars>>

\* The texts made of at most k segments.
RECURSIVE Texts(_)
Texts(k) ==
    IF k = 0 THEN {<<>>}
    ELSE LET shorter == Texts(k - 1)
         IN  shorter \cup {t \o g : t \in shorter, g \in Segments}

WalkIdle ==
    /\ script = "create_arthasastra_metadata" /\ apiKey = "set" /\ depsOk = TRUE
    /\ rootExists = FALSE /\ disk = {} /\ diskAtStart = {} /\ run = 1
    /\ pc = "idle" /\ exitStatus = 0 /\ pdf_files = <<>> /\ idx = 0
    /\ processed = 0 /\ skipped = 0 /\ failed = 0 /\ outcome = "none" /\ log = <<>>

IsoInit ==
    /\ variant \in {"plain", "ocr"}
    /\ full_text \in Texts(MaxSegs)
    /\ chapter_number \in ChapterNumbers
    /\ chapter_text = None
    /\ isoPc = "extract"
    /\ outFile = NoFile
    /\ WalkIdle /\ SegIdle /\ ManIdle /\ CleanIdle /\ RestIdle

IsoNext == iso_extract \/ iso_isolate \/ iso_save

IsoSpec == IsoInit /\ [][IsoNext]_vars

(***************************************************************************)
(* Properties of the chapter isolator                                      *)
(***************************************************************************)
Isolated == isoPc \in {"save", "exited"} /\ ~Falsy(full_text)

\* The positions of t at which a chapter-n marker of the plain isolator starts.
MarkersOf(t, n) == {i \in 1..Len(t) : MatchAt(t, i, ChapterPattern(n))}

Min(S) == CHOOSE i \in S : \A j \in S : i <= j

\* C8: when the chapter-N marker occurs, isolate_chapter returns the text
\* from the first chapter-N marker up to, and excluding, the first
\* chapter-(N+1) marker at or after it, or up to the end of the text when
\* no such marker follows.
C8_IsolatesChapterSpan ==
    (Isolated /\ variant = "plain" /\ MarkersOf(full_text, chapter_number) # {})
    => LET start == Min(MarkersOf(full_text, chapter_number))
           later == {i \in MarkersOf(full_text, chapter_number + 1) : i >= start}
       IN  chapter_text = IF later = {} THEN SubSeq(full_text, start, Len(full_text))
                          ELSE SubSeq(full_text, start, Min(later) - 1)

\* Chapter 5 was cut out of a text that goes on with chapter 6 and more.
C8_Witness ==
    /\ Isolated /\ variant = "plain" /\ chapter_number = 5
    /\ chapter_text # None
    /\ \E i \in MarkersOf(full_text, 6) :
          /\ i > Min(MarkersOf(full_text, 5))
          /\ Len(chapter_text) = i - Min(MarkersOf(full_text, 5))
          /\ i + 10 <= Len(full_text)
    /\ Len(chapter_text) > 9

\* The (start, end) pattern pair the isolator works with on text t: the only
\* pair of the plain isolator, the first pair whose start occurs for OCR.
PairsOf(v, n) ==
    IF v = "ocr" THEN OcrPatterns(n)
    ELSE << <<ChapterPattern(n), ChapterPattern(n + 1)>> >>

Occurs(t, pat) == \E i \in 1..Len(t) : MatchAt(t, i, pat)

StartAbsent(v, t, n) == \A k \in 1..Len(PairsOf(v, n)) : ~Occurs(t, PairsOf(v, n)[k][1])

UsedPair(v, t, n) ==
    LET ks == {k \in 1..Len(PairsOf(v, n)) : Occurs(t, PairsOf(v, n)[k][1])}
    IN  PairsOf(v, n)[Min(ks)]

HitsOf(t, pat) == {i \in 1..Len(t) : MatchAt(t, i, pat)}

\* C9: when a chapter-(N+1) marker occurs before the first chapter-N marker,
\* the result is not ended by it: it begins with chapter N's marker and runs
\* to the first chapter-(N+1) marker after that start, or to the end of text.
C9_EarlierNextMarkerIgnored ==
    (Isolated /\ ~StartAbsent(variant, full_text, chapter_number))
    => LET pair == UsedPair(variant, full_text, chapter_number)
           start == Min(HitsOf(full_text, pair[1]))
           ends == HitsOf(full_text, pair[2])
           after == {i \in ends : i > start}
       IN  (\E i \in ends : i < start)
           => /\ chapter_text # None
              /\ MatchAt(chapter_text, 1, pair[1])
              /\ Len(chapter_text) = (IF after = {} THEN Len(full_text) + 1 ELSE Min(after)) - start
              /\ \A k \in 1..Len(chapter_text) : chapter_text[k] = full_text[start + k - 1]

\* Chapter 6 is announced before chapter 5 starts and starts after it.
C9_Witness ==
    /\ Isolated /\ chapter_number = 5 /\ chapter_text # None
    /\ LET pair == UsedPair(variant, full_text, chapter_number)
           start == Min(HitsOf(full_text, pair[1]))
       IN  /\ \E i \in HitsOf(full_text, pair[2]) : i < start
           /\ \E i \in HitsOf(full_text, pair[2]) : i > start /\ Len(chapter_text) = i - start

\* C10: when the chapter-N start marker is absent, or the text is empty,
\* isolate_chapter returns None, and main() stops without writing the
\* chapter output file.
C10_AbsentStartWritesNothing ==
    /\ isolate_chapter(variant, <<>>, chapter_number) = None
    /\ StartAbsent(variant, full_text, chapter_number)
       => /\ isolate_chapter(variant, full_text, chapter_number) = None
          /\ chapter_text = None
          /\ isoPc # "save"
          /\ outFile = NoFile

\* main() ended on a text that has a chapter 6 marker but no chapter 5 marker.
C10_Witness ==
    /\ isoPc = "exited" /\ chapter_number = 5 /\ variant = "plain"
    /\ Occurs(full_text, ChapterPattern(6))
    /\ StartAbsent(variant, full_text, chapter_number)
    /\ chapter_text = None /\ outFile = NoFile

(***************************************************************************)
(* Verse segmenter: VersePatternProcessor                                  *)
(*                                                                         *)
(* A line is a sequence of characters.  Three characters outside ASCII are *)
(* written by name: "D1" is the Devanagari digit one (U+0967), "DANDA" the *)
(* double danda (U+0965) and "OM" the Devanagari sign om (U+0950).         *)
(***************************************************************************)
MaxLines == 2      \* lines of an input text
MaxTail == 1       \* pieces that may follow the head of a line

\* ord(c) of the characters lines are made of.
CodePoint(c) ==
    CASE c = "\t" -> 9 [] c = " " -> 32 [] c = "!" -> 33 [] c = "-" -> 45
      [] c = "." -> 46 [] c = "1" -> 49 [] c = "2" -> 50 [] c = "3" -> 51
      [] c = ":" -> 58 [] c = "a" -> 97
      [] c = "OM" -> 2384 [] c = "DANDA" -> 2405 [] c = "D1" -> 2407

\* \d of a str pattern: any Unicode decimal digit.
IsUnicodeDigit(c) == IsDigit(c) \/ CodePoint(c) \in 2406..2415

\* A pattern is a sequence of elements: one literal character, or a run
\* (+ or *) of the characters of a class.
Lit(c) == [kind |-> "lit", cls |-> c]
Plus(k) == [kind |-> "plus", cls |-> k]
Star(k) == [kind |-> "star", cls |-> k]

\* Classes: "d" is \d, "s" is \s, "dev19" is [U+0967-U+096F].
InClass(c, k) ==
    CASE k = "d" -> IsUnicodeDigit(c)
      [] k = "s" -> IsSpace(c)
      [] k = "dev19" -> CodePoint(c) \in 2407..2415

\* The patterns of _extract_standard_verses, in list order.
standard_patterns ==
    << <<Plus("d"), Lit("."), Plus("d"), Lit("."), Plus("d")>>,
       <<Plus("d"), Lit("."), Plus("d")>>,
       <<Plus("d"), Lit(".")>>,
       <<Plus("d")>>,
       <<Plus("d"), Lit(":"), Plus("d")>>,
       <<Plus("d"), Lit(":"), Plus("d"), Lit(":"), Plus("d")>> >>

\* The complex list with its Devanagari-numeral patterns tried first.
complex_patterns_DevanagariFirst ==
    << <<Plus("dev19"), Lit("."), Plus("dev19")>>,
       <<Plus("dev19"), Lit(":"), Plus("dev19")>>,
       <<Plus("d"), Lit("."), Plus("d"), Lit("."), Plus("d")>>,
       <<Plus("d"), Lit("."), Plus("d")>>,
       <<Plus("d"), Lit(".")>>,
       <<Plus("d")>>,
       <<Lit("DANDA"), Star("s"), Plus("d"), Star("s"), Lit("DANDA")>>,
       <<Lit("DANDA"), Plus("dev19"), Lit("DANDA")>> >>

\* The patterns of _extract_complex_verses, in list order.
complex_patterns ==
    << <<Plus("d"), Lit("."), Plus("d"), Lit("."), Plus("d")>>,
       <<Plus("d"), Lit("."), Plus("d")>>,
       <<Plus("d"), Lit(".")>>,
       <<Plus("d")>>,
       <<Plus("dev19"), Lit(".")>>,
       <<Plus("dev19"), Lit(":"), Plus("dev19")>>,
       <<Lit("DANDA"), Star("s"), Plus("d"), Star("s"), Lit("DANDA")>>,
       <<Lit("DANDA"), Plus("dev19"), Lit("DANDA")>> >>

\* Length of the longest run of class-k characters of line from position i.
RECURSIVE RunLen(_, _, _)
RunLen(line, i, k) ==
    IF i <= Len(line) /\ InClass(line[i], k) THEN 1 + RunLen(line, i + 1, k)
    ELSE 0

\* Matching pattern elements e.. of pat at position i of line: the position
\* of the last character matched, or -1.  In these patterns no run is
\* followed by a character of its own class, so the greedy run is the only
\* one that can lead to a match.
RECURSIVE MatchFrom(_, _, _, _)
MatchFrom(line, i, pat, e) ==
    IF e > Len(pat) THEN i - 1
    ELSE IF pat[e].kind = "lit"
         THEN IF i <= Len(line) /\ line[i] = pat[e].cls
              THEN MatchFrom(line, i + 1, pat, e + 1)
              ELSE -1
         ELSE LET n == RunLen(line, i, pat[e].cls)
              IN  IF pat[e].kind = "plus" /\ n = 0 THEN -1
                  ELSE MatchFrom(line, i + n, pat, e + 1)

\* re.match(pattern, line): every pattern is ^(...), so group(1) is the
\* whole match, the first re_match(line, pat) characters of line.
re_match(line, pat) == MatchFrom(line, 1, pat, 1)

\* str.strip()
RECURSIVE lstrip(_)
lstrip(s) == IF s # <<>> /\ IsSpace(Head(s)) THEN lstrip(Tail(s)) ELSE s
RECURSIVE rstrip(_)
rstrip(s) ==
    IF s # <<>> /\ IsSpace(s[Len(s)]) THEN rstrip(SubSeq(s, 1, Len(s) - 1)) ELSE s
strip(s) == rstrip(lstrip(s))

\* The for loop over the patterns without its break.
RECURSIVE match_loop_NoBreak(_, _, _)
match_loop_NoBreak(pats, line, k) ==
    IF k > Len(pats) THEN <<>>
    ELSE (IF re_match(line, pats[k]) >= 0 THEN <<k>> ELSE <<>>)
         \o match_loop_NoBreak(pats, line, k + 1)

\* The for loop over the patterns from the k-th on: the patterns for which a
\* record is appended; the break makes it at most one.
RECURSIVE match_loop(_, _, _)
match_loop(pats, line, k) ==
    IF k > Len(pats) THEN <<>>
    ELSE IF re_match(line, pats[k]) >= 0 THEN <<k>>
         ELSE match_loop(pats, line, k + 1)

Record(m, c, n, t) == [marker |-> m, content |-> c, line_number |-> n, type |-> t]

VerseRecords(pats, hits, line, n) ==
    [h \in 1..Len(hits) |->
        Record(SubSeq(line, 1, re_match(line, pats[hits[h]])), line, n, "verse")]

\* The length below which an unmatched line can be 'irregular'.
IRREGULAR_LIMIT == 20

\* The class [\d\s\.:-\u0900-\u097F] as re compiles it: \d, \s, '.', the
\* range from ':' to U+0900, '-' and U+097F.
FallbackClass(c) ==
    \/ IsUnicodeDigit(c) \/ IsSpace(c) \/ c = "."
    \/ CodePoint(c) \in CodePoint(":")..2304
    \/ c = "-" \/ CodePoint(c) = 2431

\* One iteration of the loop of _extract_standard_verses over raw line
\* number n: the records it appends.
extract_standard_verses_line(raw, n) ==
    LET line == strip(raw)
    IN  IF line = <<>> THEN <<>>
        ELSE VerseRecords(standard_patterns,
                          match_loop(standard_patterns, line, 1), line, n)

\* _extract_complex_verses treating blank lines like any other line.
extract_complex_verses_line_NoStrip(raw, n) ==
    LET hits == match_loop(complex_patterns, raw, 1)
    IN  IF hits # <<>> THEN VerseRecords(complex_patterns, hits, raw, n)
        ELSE IF /\ Len(raw) < IRREGULAR_LIMIT
                /\ raw # <<>>
                /\ \A i \in 1..Len(raw) : FallbackClass(raw[i])
             THEN <<Record(raw, raw, n, "irregular")>>
             ELSE <<>>

\* One iteration of the loop of _extract_complex_verses.
extract_complex_verses_line(raw, n) ==
    LET line == strip(raw)
        hits == match_loop(complex_patterns, line, 1)
    IN  IF line = <<>> THEN <<>>
        ELSE IF hits # <<>> THEN VerseRecords(complex_patterns, hits, line, n)
        ELSE IF /\ Len(line) < IRREGULAR_LIMIT
                /\ \A i \in 1..Len(line) : FallbackClass(line[i])
             THEN <<Record(line, line, n, "irregular")>>
             ELSE <<>>

\* extract_verses: dispatch on the strategy.
extract_verses_line(st, raw, n) ==
    IF st = "complex" THEN extract_complex_verses_line(raw, n)
    ELSE extract_standard_verses_line(raw, n)

Dashes(n) == [i \in 1..n |-> "-"]

\* How a line of the input can begin.
SegHeads ==
    { <<>>, <<" ">>,
      <<"1", ".", "2", ".", "3">>, <<"1", ".", "2">>, <<"1", ".">>, <<"1">>,
      <<"1", ":", "2">>, <<"D1", ".">>, <<"D1", ":", "D1">>,
      <<"DANDA", " ", "1", " ", "DANDA">>, <<"DANDA", "D1", "DANDA">>,
      <<"OM">>, <<"a">>, <<"-">>, <<"!">>, Dashes(IRREGULAR_LIMIT - 1) }

\* What can follow.
SegTails == {<<"1">>, <<" ">>, <<"a">>}

RECURSIVE TailsUpTo(_)
TailsUpTo(k) ==
    IF k = 0 THEN {<<>>}
    ELSE LET shorter == TailsUpTo(k - 1)
         IN  shorter \cup {t \o g : t \in shorter, g \in SegTails}

SegLines == {h \o t : h \in SegHeads, t \in TailsUpTo(MaxTail)}

\* The loop takes the next line of the text.
seg_line ==
    /\ segPc = "loop"
    /\ Len(lines) < MaxLines
    /\ \E raw \in SegLines :
          /\ lines' = Append(lines, raw)
          /\ verses' = verses \o extract_verses_line(strategy, raw, Len(lines) + 1)
    /\ UNCHANGED <<lookup_table, scripture_name, strategy, segPc>>
    /\ UNCHANGED <<walkVars, isoVars, manVars, cleanVars, restVars>>

\* The text has no more lines: return verses.
seg_return ==
    /\ segPc = "loop"
    /\ segPc' = "returned"
    /\ UNCHANGED <<lookup_table, scripture_name, strategy, lines, verses>>
    /\ UNCHANGED <<walkVars, isoVars, manVars, cleanVars, restVars>>

SegInit ==
    /\ lookup_table = <<>> /\ scripture_name = ""
    /\ strategy \in {"standard", "complex"}
    /\ lines = <<>> /\ verses = <<>> /\ segPc = "loop"
    /\ WalkIdle /\ IsoIdle /\ ManIdle /\ CleanIdle /\ RestIdle

SegNext == seg_line \/ seg_return

SegSpec == SegInit /\ [][SegNext]_vars

(***************************************************************************)
(* extract_verses: the strategy is looked up by scripture name             *)
(***************************************************************************)
\* The values a profile's recommendedParsingStrategy can hold.
StrategyValues == {"standard", "complex", "hybrid"}

\* The scripture names of the table, and one that it does not list.
ListedNames == {"Rig_Veda"}
ScriptureNames == ListedNames \cup {"Unlisted_Text"}

Profile(v) == [recommendedParsingStrategy |-> v]

\* The tables: every subset of the listed names, each with a profile.
LookupTables ==
    UNION {[ns -> {Profile(v) : v \in StrategyValues}] : ns \in SUBSET ListedNames}

\* get_parsing_strategy with 'complex' as the default.
get_parsing_strategy_DefaultComplex(table, name) ==
    IF name \in DOMAIN table THEN table[name].recommendedParsingStrategy
    ELSE "complex"

get_parsing_strategy(table, name) ==
    IF name \in DOMAIN table THEN table[name].recommendedParsingStrategy
    ELSE "standard"

\* extract_verses: strategy = self.get_parsing_strategy(scripture_name)
seg_select ==
    /\ segPc = "select"
    /\ strategy' = get_parsing_strategy(lookup_table, scripture_name)
    /\ segPc' = "loop"
    /\ UNCHANGED <<lookup_table, scripture_name, lines, verses>>
    /\ UNCHANGED <<walkVars, isoVars, manVars, cleanVars, restVars>>

ExtractInit ==
    /\ lookup_table \in LookupTables
    /\ scripture_name \in ScriptureNames
    /\ strategy = "standard"
    /\ lines = <<>> /\ verses = <<>> /\ segPc = "select"
    /\ WalkIdle /\ IsoIdle /\ ManIdle /\ CleanIdle /\ RestIdle

ExtractNext == seg_select \/ seg_line \/ seg_return

ExtractSpec == ExtractInit /\ [][ExtractNext]_vars

(***************************************************************************)
(* Properties of the segmenter                                             *)
(***************************************************************************)
NonBlank(raw) == \E i \in 1..Len(raw) : ~IsSpace(raw[i])

PatternsOf(st) == IF st = "complex" THEN complex_patterns ELSE standard_patterns

\* The patterns of the strategy that match the trimmed line.
Matching(st, raw) ==
    {k \in 1..Len(PatternsOf(st)) : re_match(strip(raw), PatternsOf(st)[k]) >= 0}

\* The records emitted for line number n.
RecordsAt(n) == {i \in 1..Len(verses) : verses[i].line_number = n}

\* C11: the records' line numbers are 1-based, strictly increasing (hence
\* pairwise distinct), each is the number of a non-blank line of the input,
\* and there are at most as many records as non-blank lines.
C11_LineNumbers ==
    /\ \A i \in 1..Len(verses) :
          /\ verses[i].line_number \in 1..Len(lines)
          /\ NonBlank(lines[verses[i].line_number])
    /\ \A i, j \in 1..Len(verses) :
          i < j => verses[i].line_number < verses[j].line_number
    /\ Len(verses) <= Cardinality({n \in 1..Len(lines) : NonBlank(lines[n])})

\* A blank first line is counted: the record of the second line has number 2.
C11_Witness ==
    /\ segPc = "returned" /\ strategy = "complex"
    /\ Len(lines) = 2 /\ ~NonBlank(lines[1]) /\ lines[1] # <<>>
    /\ Len(verses) = 1 /\ verses[1].line_number = 2

\* The line begins 1.2.3 and no digit follows.
Begins123(line) ==
    /\ Len(line) >= 5
    /\ SubSeq(line, 1, 5) = <<"1", ".", "2", ".", "3">>
    /\ (Len(line) > 5 => ~IsUnicodeDigit(line[6]))

\* C12: a non-blank line matched by more than one pattern of the strategy's
\* list yields exactly one record, whose marker is the text captured by the
\* earliest matching pattern; a line beginning 1.2.3 (and no further digit)
\* yields marker 1.2.3, not 1.2 or 1.
C12_FirstPatternWins ==
    \A n \in 1..Len(lines) :
        LET line == strip(lines[n])
            hit == Matching(strategy, lines[n])
        IN  Cardinality(hit) > 1 =>
              /\ Cardinality(RecordsAt(n)) = 1
              /\ \A i \in RecordsAt(n) :
                    /\ verses[i].type = "verse"
                    /\ verses[i].content = line
                    /\ verses[i].marker =
                          SubSeq(line, 1, re_match(line, PatternsOf(strategy)[Min(hit)]))
                    /\ (Begins123(line) => verses[i].marker = <<"1", ".", "2", ".", "3">>)

\* A line "1.2.3a", matched by four patterns, gave the marker 1.2.3.
C12_Witness ==
    /\ Len(lines) >= 1
    /\ lines[1] = <<"1", ".", "2", ".", "3", "a">>
    /\ Cardinality(Matching(strategy, lines[1])) = 4
    /\ Len(verses) >= 1
    /\ verses[1].marker = <<"1", ".", "2", ".", "3">>

\* The characters the fallback is described to accept: digits, whitespace,
\* '.', ':', '-' and the Devanagari block U+0900..U+097F.
DescribedClass(c) ==
    \/ IsUnicodeDigit(c) \/ IsSpace(c) \/ c \in {".", ":", "-"}
    \/ CodePoint(c) \in 2304..2431

\* Line n is non-blank, matches no formal pattern of the complex list, is
\* shorter than 20 characters and is made of described characters only.
ShortClassLine(n) ==
    LET line == strip(lines[n])
    IN  /\ line # <<>>
        /\ Matching("complex", lines[n]) = {}
        /\ Len(line) < 20
        /\ \A i \in 1..Len(line) : DescribedClass(line[i])

\* C13: under the complex strategy every short unmatched line of digits,
\* whitespace, '.', ':', '-' or Devanagari-block characters has a record of
\* type 'irregular' whose marker and content are the line.
C13_ShortClassLineIsIrregular ==
    strategy = "complex" =>
        \A n \in 1..Len(lines) :
            ShortClassLine(n) =>
                \E i \in RecordsAt(n) :
                    /\ verses[i].type = "irregular"
                    /\ verses[i].marker = strip(lines[n])
                    /\ verses[i].content = strip(lines[n])

\* C14: under the complex strategy every 'irregular' record comes from a
\* short unmatched line of described characters, and an unmatched line that
\* is longer or holds another character (a Latin letter) has no record.
C14_IrregularOnlyFromClassLines ==
    strategy = "complex" =>
        /\ \A i \in 1..Len(verses) :
              verses[i].type = "irregular" => ShortClassLine(verses[i].line_number)
        /\ \A n \in 1..Len(lines) :
              (/\ NonBlank(lines[n])
               /\ Matching("complex", lines[n]) = {}
               /\ ~ShortClassLine(n)) => RecordsAt(n) = {}

(***************************************************************************)
(* Chapter manifest builders: scripts/generate_chapter_manifest*.py        *)
(*                                                                         *)
(* A folder or file name is the sequence of its parts together with the    *)
(* separator that joins them: Name("_", <<"Section", "2", "Nidana">>) is   *)
(* Section_2_Nidana.  A file name is a stem, without its extension.  Each  *)
(* builder is given names written with the separator of its scripture.     *)
(* A manifest keeps the fields the builders compute from the names:        *)
(* totalChapters and, per section, sectionId, sectionName, chapterCount    *)
(* and the chapters with chapterId, chapterNumber and the file they came   *)
(* from; titles, URLs and hasMetadata are left out.                        *)
(***************************************************************************)
MaxFolders == 3    \* folders under the scripture root
MaxChapters == 2   \* chapter files in one folder

GENERIC == "generate_chapter_manifest"
ARTHASASTRA == "generate_chapter_manifest_arthasastra"
BHAGVATA == "generate_chapter_manifest_bhagvata_purana"
KAMASUTRA == "generate_chapter_manifest_kamasutra"
PANCHATANTRA == "generate_chapter_manifest_panchatantra"
VASTU == "generate_chapter_manifest_vastu_sastra"
SUSHRUTA == "generate_chapter_manifest_sushruta_samhita_copy"
Builders == {GENERIC, ARTHASASTRA, BHAGVATA, KAMASUTRA, PANCHATANTRA, VASTU,
             SUSHRUTA}

Name(sep, parts) == [sep |-> sep, parts |-> parts]

\* A part that \d+ matches entirely.
IsNumber(t) == t \in {"1", "2", "3", "10"}

\* int() of such a part.
int(t) == CASE t = "1" -> 1 [] t = "2" -> 2 [] t = "3" -> 3 [] t = "10" -> 10

\* str() of the integers a builder can hold.
str(n) ==
    CASE n = 0 -> "0" [] n = 1 -> "1" [] n = 2 -> "2" [] n = 3 -> "3"
      [] n = 10 -> "10" [] n = 999 -> "999"

\* The folders that may lie under the root, in the order sorted() gives
\* their paths.
FolderCatalog(b) ==
    CASE b = GENERIC ->
           << Name("_", <<"Appendix">>),
              Name("_", <<"Section", "10", "Uttara">>),
              Name("_", <<"Section", "2", "Nidanasthanam">>),
              Name("_", <<"Section", "3", "Vimanasthanam">>) >>
      [] b = ARTHASASTRA ->
           << Name("_", <<"Arthashastra", "Book", "10", "War">>),
              Name("_", <<"Arthashastra", "Book", "2", "Duties">>),
              Name("_", <<"Arthashastra", "Book", "Appendix">>),
              Name("_", <<"Notes">>) >>
      [] b = BHAGVATA ->
           << Name("_", <<"Canto", "10", "Srimad", "Bhagvatam", "Summum">>),
              Name("_", <<"Canto", "2", "Srimad", "Bhagvatam", "Cosmos">>),
              Name("_", <<"Canto", "Extras">>),
              Name("_", <<"Notes">>) >>
      [] b = KAMASUTRA ->
           << Name("_", <<"Notes">>),
              Name("_", <<"Part", "10", "Occult">>),
              Name("_", <<"Part", "2", "Union">>),
              Name("_", <<"Part", "3">>),
              Name("_", <<"Part", "Appendix">>) >>
      [] b = PANCHATANTRA ->
           << Name("_", <<"Notes">>),
              Name("_", <<"Panchtantra", "Tantra", "10", "Sequel">>),
              Name("_", <<"Panchtantra", "Tantra", "2", "Friends">>),
              Name("_", <<"Panchtantra", "Tantra", "Extras">>) >>
      [] b = VASTU ->
           << Name(" ", <<"Notes">>),
              Name(" ", <<"Part", "10", "Temples">>),
              Name(" ", <<"Part", "2", "Site">>),
              Name(" ", <<"Part", "3">>) >>
      [] b = SUSHRUTA ->
           << Name("_", <<"Appendix">>),
              Name("_", <<"Section", "10", "Uttara">>),
              Name("_", <<"Section", "3">>),
              Name("_", <<"Sushruta", "Samhita", "Section", "2", "Nidanasthanam">>) >>

File(n, r) == [name |-> n, readable |-> r]

\* The entries a division folder may hold that the builder's glob lists
\* (PDFs, JSON files, or story folders), in the order sorted() gives them.
\* readable: json.load of the file gives a dict (arthasastra, kamasutra), or
\* the story folder holds a PDF (panchatantra).
FileCatalog(b) ==
    CASE b \in {GENERIC, SUSHRUTA} ->
           << File(Name("_", <<"Caraka", "Chapter", "1">>), TRUE),
              File(Name("_", <<"Caraka", "Chapter", "2">>), TRUE),
              File(Name("_", <<"Caraka", "Chapter", "X">>), TRUE),
              File(Name("_", <<"Notes">>), TRUE) >>
      [] b \in {ARTHASASTRA, KAMASUTRA} ->
           << File(Name("_", <<"Book", "Chapter", "1">>), TRUE),
              File(Name("_", <<"Book", "Chapter", "2">>), TRUE),
              File(Name("_", <<"Book", "Chapter", "3">>), FALSE),
              File(Name("_", <<"notes">>), TRUE) >>
      [] b = BHAGVATA ->
           << File(Name("_", <<"Notes">>), TRUE),
              File(Name("_", <<"SB", "2", "1", "Questions">>), TRUE),
              File(Name("_", <<"SB", "2", "2", "Answers">>), TRUE) >>
      [] b = PANCHATANTRA ->
           << File(Name("_", <<"Panchatantra", "CAF", "1", "Monkey">>), TRUE),
              File(Name("_", <<"Panchatantra", "CAF", "2", "Jackal">>), TRUE),
              File(Name("_", <<"Panchatantra", "CAF", "3", "Empty">>), FALSE),
              File(Name("_", <<"Panchatantra", "Extras">>), TRUE) >>
      [] b = VASTU ->
           << File(Name(" ", <<"Chapter", "1", "Orientation">>), TRUE),
              File(Name(" ", <<"Chapter", "2", "Soil">>), TRUE),
              File(Name(" ", <<"Introduction">>), TRUE),
              File(Name(" ", <<"Plates">>), TRUE) >>

\* The elements of catalog c that are in S, in catalog order.
RECURSIVE InCatalogOrder(_, _, _)
InCatalogOrder(c, S, i) ==
    IF i > Len(c) THEN <<>>
    ELSE (IF c[i] \in S THEN <<c[i]>> ELSE <<>>) \o InCatalogOrder(c, S, i + 1)

\* list.sort / sorted with a key: a stable sort of records by their field k.
RECURSIVE InsertByKey(_, _)
InsertByKey(x, s) ==
    IF s = <<>> THEN <<x>>
    ELSE IF x.k < Head(s).k THEN <<x>> \o s
         ELSE <<Head(s)>> \o InsertByKey(x, Tail(s))

RECURSIVE SortByKey(_)
SortByKey(s) ==
    IF s = <<>> THEN <<>>
    ELSE InsertByKey(s[Len(s)], SortByKey(SubSeq(s, 1, Len(s) - 1)))

Values(s) == [i \in 1..Len(s) |-> s[i].v]

\* name.startswith(prefix + sep): the first parts are those of the prefix
\* and a separator follows.
startswith(name, prefix) ==
    /\ Len(name.parts) > Len(prefix)
    /\ SubSeq(name.parts, 1, Len(prefix)) = prefix

\* The least position in S, 0 when S is empty: where re.search matches.
FirstIndex(S) == IF S = {} THEN 0 ELSE CHOOSE i \in S : \A j \in S : i <= j

Info(id, label, name) == [id |-> id, label |-> label, name |-> name]
NoInfo == Info(None, <<>>, Name("", <<>>))

\* generate_chapter_manifest.py: the section of a folder name.
section_info(name) ==
    LET parts == name.parts
    IN  IF Len(parts) >= 3 /\ parts[1] = "Section"
        THEN Info(parts[2], <<>>, Name("_", SubSeq(parts, 3, Len(parts))))
        ELSE Info("unknown", <<>>, name)

\* arthasastra: extract_book_info.
extract_book_info(name) ==
    LET parts == name.parts
        \* folder_name.replace("Arthashastra_", "").replace("arthashastra_", "")
        keep == {i \in 1..Len(parts) :
                    i = Len(parts) \/ parts[i] \notin {"Arthashastra", "arthashastra"}}
        clean == [j \in 1..Cardinality(keep) |->
                    parts[CHOOSE i \in keep : Cardinality({h \in keep : h < i}) = j - 1]]
    IN  IF \E i \in 1..(Len(clean) - 1) : clean[i] = "Book"
        THEN IF Len(clean) >= 3 /\ clean[1] = "Book"
             THEN Info(clean[2], <<>>, Name("_", SubSeq(clean, 3, Len(clean))))
             ELSE Info("unknown", <<>>, Name("_", clean))
        ELSE Info("unknown", <<>>, name)

\* bhagvata_purana: extract_canto_info, None when the name does not match
\* Canto_(\d+)_Srimad_Bhagvatam_(.+).
extract_canto_info(name) ==
    LET parts == name.parts
        i == FirstIndex({h \in 1..(Len(parts) - 4) :
                 /\ parts[h] = "Canto" /\ IsNumber(parts[h + 1])
                 /\ parts[h + 2] = "Srimad" /\ parts[h + 3] = "Bhagvatam"})
    IN  IF i = 0 THEN NoInfo
        ELSE Info(str(int(parts[i + 1])), <<"Canto", str(int(parts[i + 1]))>>,
                  Name(" ", SubSeq(parts, i + 4, Len(parts))))

\* kamasutra: re.match(r'Part_(\d+)', d.name) of the sort key of line 92.
part_key_matches(name) ==
    Len(name.parts) >= 2 /\ name.parts[1] = "Part" /\ IsNumber(name.parts[2])

\* kamasutra: the sort key, int(match.group(1)).
part_sort_key(name) == int(name.parts[2])

\* kamasutra: extract_part_info, re.match(r'Part_(\d+)_(.*)').
extract_part_info_kamasutra(name) ==
    LET parts == name.parts
    IN  IF Len(parts) >= 3 /\ parts[1] = "Part" /\ IsNumber(parts[2])
        THEN Info(parts[2], <<"Part", parts[2]>>, Name(" ", SubSeq(parts, 3, Len(parts))))
        ELSE Info("unknown", <<"Part", "unknown">>, Name(" ", parts))

\* panchatantra: extract_tantra_info, re.search(r"Tantra_(\d+)_(.+)").
extract_tantra_info(name) ==
    LET parts == name.parts
        i == FirstIndex({h \in 1..(Len(parts) - 2) :
                 parts[h] = "Tantra" /\ IsNumber(parts[h + 1])})
    IN  IF i = 0 THEN NoInfo
        ELSE Info(str(int(parts[i + 1])), <<"Tantra", str(int(parts[i + 1]))>>,
                  Name(" ", SubSeq(parts, i + 2, Len(parts))))

\* vastu_sastra: extract_part_info, re.search(r"Part\s+(\d+)\s+(.+)").
extract_part_info_vastu(name) ==
    LET parts == name.parts
        i == FirstIndex({h \in 1..(Len(parts) - 2) :
                 parts[h] \in {"Part", "part", "PART"} /\ IsNumber(parts[h + 1])})
    IN  IF i = 0 THEN NoInfo
        ELSE Info(str(int(parts[i + 1])), <<"Part", str(int(parts[i + 1]))>>,
                  Name(" ", SubSeq(parts, i + 2, Len(parts))))

\* sushruta_samhita_copy: extract_section_info.
extract_section_info(name) ==
    LET parts == name.parts
        \* folder_name.replace("Sushruta_Samhita_", "").replace("sushruta_samhita_", "")
        drop == {i \in 1..(Len(parts) - 1) :
                    \/ (i + 1 < Len(parts)
                          /\ <<parts[i], parts[i + 1]>> \in
                                {<<"Sushruta", "Samhita">>, <<"sushruta", "samhita">>})
                    \/ (i > 1 /\ i < Len(parts)
                          /\ <<parts[i - 1], parts[i]>> \in
                                {<<"Sushruta", "Samhita">>, <<"sushruta", "samhita">>})}
        keep == (1..Len(parts)) \ drop
        clean == [j \in 1..Cardinality(keep) |->
                    parts[CHOOSE i \in keep : Cardinality({h \in keep : h < i}) = j - 1]]
    IN  IF \E i \in 1..(Len(clean) - 1) : clean[i] = "Section"
        THEN IF Len(clean) >= 3
             THEN Info(clean[2], <<>>, Name("_", SubSeq(clean, 3, Len(clean))))
             ELSE Info("unknown", <<>>, Name("_", clean))
        ELSE Info("unknown", <<>>, name)

\* The section a builder derives from a division folder; id None when the
\* builder skips the folder.
division_info(b, name) ==
    CASE b = GENERIC -> section_info(name)
      [] b = SUSHRUTA -> extract_section_info(name)
      [] b = ARTHASASTRA -> extract_book_info(name)
      [] b = BHAGVATA -> extract_canto_info(name)
      [] b = KAMASUTRA -> extract_part_info_kamasutra(name)
      [] b = PANCHATANTRA -> extract_tantra_info(name)
      [] b = VASTU -> extract_part_info_vastu(name)

\* The filter of the comprehension over root_path.iterdir().
Scanned(b, name) ==
    CASE b \in {GENERIC, SUSHRUTA} -> TRUE
      [] b = ARTHASASTRA -> startswith(name, <<"Arthashastra", "Book">>)
      [] b = BHAGVATA -> startswith(name, <<"Canto">>)
      [] b = KAMASUTRA -> startswith(name, <<"Part">>)
      [] b = PANCHATANTRA -> startswith(name, <<"Panchtantra", "Tantra">>)
      [] b = VASTU -> \E h \in 1..(Len(name.parts) - 1) :
                          /\ name.parts[h] \in {"Part", "part", "PART"}
                          /\ IsNumber(name.parts[h + 1])

\* The key "extract_..._info(d.name)[0] or 999".
NumberOr999(b, name) ==
    IF division_info(b, name).id = None THEN 999
    ELSE int(division_info(b, name).id)

\* kamasutra: the sort key raises AttributeError for a folder it cannot
\* match; no other builder's scan raises.
scan_raises(b, listing) ==
    /\ b = KAMASUTRA
    /\ \E i \in 1..Len(listing) :
          Scanned(b, listing[i]) /\ ~part_key_matches(listing[i])

\* The division folders in the order the builder's loop takes them, for an
\* iterdir() that lists the root's folders in the order listing.
scan_folders(b, listing) ==
    LET Keep(n) == Scanned(b, n)
        kept == SelectSeq(listing, Keep)
    IN  CASE b \in {GENERIC, SUSHRUTA} ->
               InCatalogOrder(FolderCatalog(b), Range(listing), 1)
          [] b = ARTHASASTRA -> kept
          [] b = KAMASUTRA ->
               Values(SortByKey([i \in 1..Len(kept) |->
                        [k |-> part_sort_key(kept[i]), v |-> kept[i]]]))
          [] OTHER ->
               Values(SortByKey([i \in 1..Len(kept) |->
                        [k |-> NumberOr999(b, kept[i]), v |-> kept[i]]]))

\* No chapter number.
NoNumber == -1

\* The chapter number the builder's pattern finds in a file (or story
\* folder) name, NoNumber when the name does not match it.
parse_chapter(b, name) ==
    LET parts == name.parts
        after(S) == IF S = {} THEN NoNumber ELSE int(parts[FirstIndex(S) + 1])
    IN  CASE b \in {GENERIC, SUSHRUTA} ->
               \* "Chapter_" in stem; int(stem.split("Chapter_")[1].split('_')[0])
               LET i == FirstIndex({h \in 1..(Len(parts) - 1) : parts[h] = "Chapter"})
               IN  IF i # 0 /\ IsNumber(parts[i + 1]) THEN int(parts[i + 1])
                   ELSE NoNumber
          [] b \in {ARTHASASTRA, KAMASUTRA} ->
               \* re.search(r'[_-]Chapter_(\d+)'), re.search(r'_Chapter_(\d+)')
               after({h \in 2..(Len(parts) - 1) :
                         parts[h] = "Chapter" /\ IsNumber(parts[h + 1])})
          [] b = BHAGVATA ->
               \* re.search(r"SB_(\d+)_(\d+)_"): the second number
               LET i == FirstIndex({h \in 1..(Len(parts) - 3) :
                            /\ parts[h] = "SB" /\ IsNumber(parts[h + 1])
                            /\ IsNumber(parts[h + 2])})
               IN  IF i = 0 THEN NoNumber ELSE int(parts[i + 2])
          [] b = PANCHATANTRA ->
               \* re.search(r"_(CAF|WOF|COA|FOP|AWDC)_(\d+)")
               after({h \in 2..(Len(parts) - 1) :
                         /\ parts[h] \in {"CAF", "WOF", "COA", "FOP", "AWDC"}
                         /\ IsNumber(parts[h + 1])})
          [] b = VASTU ->
               \* re.search(r"Chapter\s+(\d+)", re.IGNORECASE)
               after({h \in 1..(Len(parts) - 1) :
                         /\ parts[h] \in {"Chapter", "chapter", "CHAPTER"}
                         /\ IsNumber(parts[h + 1])})

\* get_chapter_number / get_story_number / extract_chapter_info: the number
\* the builder goes on with, NoNumber when it skips the file.
get_chapter_number(b, name) ==
    LET n == parse_chapter(b, name)
    IN  IF n # NoNumber THEN n
        ELSE CASE b \in {GENERIC, BHAGVATA, SUSHRUTA} -> NoNumber
               [] b \in {ARTHASASTRA, KAMASUTRA, PANCHATANTRA} -> 0
               [] b = VASTU ->
                    IF \E i \in 1..Len(name.parts) :
                           name.parts[i] \in {"Introduction", "Introductory"}
                    THEN 0 ELSE 999

\* The chapter entry appended for a file with number num.
chapter_entry(b, f, num, chapters) ==
    [chapterId |-> str(num),
     chapterNumber |-> IF b = VASTU /\ num = 999 THEN Len(chapters) + 1 ELSE num,
     file |-> f.name]

\* The loop over the files of one folder that counted a file before it
\* decided to skip it.
RECURSIVE chapters_loop_CountSkipped(_, _, _, _)
chapters_loop_CountSkipped(b, listing, i, acc) ==
    IF i > Len(listing) THEN acc
    ELSE LET f == listing[i]
             num == get_chapter_number(b, f.name)
         IN  chapters_loop_CountSkipped(b, listing, i + 1,
                IF ~f.readable \/ num = NoNumber
                THEN [chapters |-> acc.chapters, total |-> acc.total + 1]
                ELSE [chapters |-> Append(acc.chapters,
                                          chapter_entry(b, f, num, acc.chapters)),
                      total |-> acc.total + 1])

\* The loop over the files of one folder from the i-th on: the chapters
\* list and manifest["totalChapters"] after it.
RECURSIVE chapters_loop(_, _, _, _)
chapters_loop(b, listing, i, acc) ==
    IF i > Len(listing) THEN acc
    ELSE LET f == listing[i]
             num == get_chapter_number(b, f.name)
         IN  chapters_loop(b, listing, i + 1,
                IF ~f.readable \/ num = NoNumber
                THEN acc
                ELSE [chapters |-> Append(acc.chapters,
                                          chapter_entry(b, f, num, acc.chapters)),
                      total |-> acc.total + 1])

\* The files of a folder in the order the inner loop takes them: sorted by
\* name, or by the chapter-number key over a glob taken in name order.
file_listing(b, files) ==
    LET byName == InCatalogOrder(FileCatalog(b), files, 1)
    IN  IF b \in {GENERIC, BHAGVATA, SUSHRUTA} THEN byName
        ELSE Values(SortByKey([i \in 1..Len(byName) |->
                 [k |-> get_chapter_number(b, byName[i].name), v |-> byName[i]]]))

SortChapters(chapters) ==
    Values(SortByKey([i \in 1..Len(chapters) |->
               [k |-> chapters[i].chapterNumber, v |-> chapters[i]]]))

\* sushruta_samhita_copy has no "if not pdf_files: continue".
keeps_empty_folder(b) == b = SUSHRUTA

\* One iteration of the loop over the division folders: the manifest after
\* it.
process_section(b, name, files, m) ==
    LET info == division_info(b, name)
        listing == file_listing(b, files)
        r == chapters_loop(b, listing, 1,
                           [chapters |-> <<>>, total |-> m.totalChapters])
        chapters == SortChapters(r.chapters)
    IN  IF info.id = None \/ (listing = <<>> /\ ~keeps_empty_folder(b)) THEN m
        ELSE [totalChapters |-> r.total,
              sections |-> Append(m.sections,
                  [sectionId |-> info.id,
                   sectionName |-> [label |-> info.label, name |-> info.name],
                   chapterCount |-> Len(chapters),
                   chapters |-> chapters])]

\* manifest["sections"].sort(key=lambda x: int(x["sectionId"]))
SortSections(sections) ==
    Values(SortByKey([i \in 1..Len(sections) |->
               [k |-> int(sections[i].sectionId), v |-> sections[i]]]))

\* The sections after the statements that follow the loop.  In the generic
\* and arthasastra builders int() raising on a sectionId is swallowed and
\* the list keeps its order; kamasutra does not sort.
final_sections(b, sections) ==
    CASE b \in {GENERIC, ARTHASASTRA, SUSHRUTA} ->
           IF \A i \in 1..Len(sections) : IsNumber(sections[i].sectionId)
           THEN SortSections(sections) ELSE sections
      [] b = KAMASUTRA -> sections
      [] OTHER -> SortSections(sections)

\* "if not manifest['sections']: return None" after the loop.
returns_none_when_empty(b) == b \in {BHAGVATA, PANCHATANTRA, VASTU}

\* "if not section_folders: return None" after the scan.
returns_none_without_folders(b) == b # SUSHRUTA

\* The builders whose main flow calls validate_manifest before it writes.
has_validate_manifest(b) == b # SUSHRUTA

RECURSIVE sum_chapter_counts(_)
sum_chapter_counts(sections) ==
    IF sections = <<>> THEN 0
    ELSE Head(sections).chapterCount + sum_chapter_counts(Tail(sections))

\* validate_manifest on a manifest dict that has its required keys.
validate_manifest(b, m) ==
    /\ m.sections # <<>>
    /\ b \in {BHAGVATA, PANCHATANTRA, VASTU} =>
          \A i \in 1..Len(m.sections) :
              m.sections[i].chapterCount = Len(m.sections[i].chapters)
    /\ b = KAMASUTRA => m.totalChapters = sum_chapter_counts(m.sections)

EmptyManifest == [totalChapters |-> 0, sections |-> <<>>]

\* The orders in which iterdir() can list the folders S.
Orders(S) ==
    {s \in [1..Cardinality(S) -> S] : \A i, j \in DOMAIN s : i # j => s[i] # s[j]}

\* The root check and the scan for division folders.
man_scan ==
    /\ manPc = "scan"
    /\ IF ~manRoot
       THEN /\ manPc' = "returned_none"
            /\ UNCHANGED <<folders, sec_idx, manifest>>
       ELSE \E listing \in Orders(DOMAIN tree) :
              IF scan_raises(builder, listing)
              THEN /\ manPc' = "aborted"
                   /\ UNCHANGED <<folders, sec_idx, manifest>>
              ELSE IF scan_folders(builder, listing) = <<>>
                      /\ returns_none_without_folders(builder)
              THEN /\ manPc' = "returned_none"
                   /\ UNCHANGED <<folders, sec_idx, manifest>>
              ELSE /\ folders' = scan_folders(builder, listing)
                   /\ sec_idx' = 1
                   /\ manifest' = EmptyManifest
                   /\ manPc' = "sections"
    /\ UNCHANGED <<builder, manRoot, tree, validated, output>>
    /\ UNCHANGED <<walkVars, isoVars, segVars, cleanVars, restVars>>

\* One division folder.
man_section ==
    /\ manPc = "sections"
    /\ sec_idx <= Len(folders)
    /\ manifest' = process_section(builder, folders[sec_idx],
                                   tree[folders[sec_idx]], manifest)
    /\ sec_idx' = sec_idx + 1
    /\ UNCHANGED <<builder, manRoot, tree, folders, manPc, validated, output>>
    /\ UNCHANGED <<walkVars, isoVars, segVars, cleanVars, restVars>>

\* After the loop: the final sort and the return.  In sushruta_samhita_copy
\* the loop is part of main(), whose next statement is the write.
man_return ==
    /\ manPc = "sections"
    /\ sec_idx > Len(folders)
    /\ manifest' = [manifest EXCEPT !.sections = final_sections(builder, @)]
    /\ manPc' = IF returns_none_when_empty(builder) /\ manifest.sections = <<>>
                THEN "returned_none"
                ELSE IF has_validate_manifest(builder) THEN "returned" ELSE "write"
    /\ UNCHANGED <<builder, manRoot, tree, folders, sec_idx, validated, output>>
    /\ UNCHANGED <<walkVars, isoVars, segVars, cleanVars, restVars>>

\* main: "if not validate_manifest(manifest): exit(1)" (or return).
man_validate ==
    /\ manPc = "returned"
    /\ validated' = validate_manifest(builder, manifest)
    /\ manPc' = IF validate_manifest(builder, manifest) THEN "write" ELSE "invalid"
    /\ UNCHANGED <<builder, manRoot, tree, folders, sec_idx, manifest, output>>
    /\ UNCHANGED <<walkVars, isoVars, segVars, cleanVars, restVars>>

\* main: open(output_path, 'w') and json.dump(manifest, f); the open may fail.
man_write ==
    /\ manPc = "write"
    /\ \E opened \in BOOLEAN :
          IF opened
          THEN /\ output' = [written |-> TRUE, manifest |-> manifest]
               /\ manPc' = "done"
          ELSE /\ manPc' = "write_failed"
               /\ UNCHANGED output
    /\ UNCHANGED <<builder, manRoot, tree, folders, sec_idx, manifest, validated>>
    /\ UNCHANGED <<walkVars, isoVars, segVars, cleanVars, restVars>>

CatalogSet(c) == {c[i] : i \in 1..Len(c)}

\* The directory trees: at most MaxFolders folders of the catalog, each with
\* at most MaxChapters files.
Trees(b) ==
    LET fileSets == {fs \in SUBSET CatalogSet(FileCatalog(b)) :
                        Cardinality(fs) <= MaxChapters}
    IN  UNION {[ds -> fileSets] :
                  ds \in {d \in SUBSET CatalogSet(FolderCatalog(b)) :
                             Cardinality(d) <= MaxFolders}}

ManInit ==
    /\ builder \in Builders
    /\ manRoot \in BOOLEAN
    /\ tree \in (IF manRoot THEN Trees(builder) ELSE {<<>>})
    /\ folders = <<>> /\ sec_idx = 0
    /\ manifest = EmptyManifest
    /\ manPc = "scan"
    /\ validated = FALSE
    /\ output = [written |-> FALSE, manifest |-> EmptyManifest]
    /\ WalkIdle /\ IsoIdle /\ SegIdle /\ CleanIdle /\ RestIdle

ManNext == man_scan \/ man_section \/ man_return \/ man_validate \/ man_write

ManSpec == ManInit /\ [][ManNext]_vars

(***************************************************************************)
(* Properties of the manifest builders                                     *)
(***************************************************************************)
\* The manifest has been built and handed to the main flow.
Returned == manPc \in {"returned", "invalid", "write", "done", "write_failed"}

RECURSIVE SumCounts(_)
SumCounts(sections) ==
    IF sections = <<>> THEN 0
    ELSE Head(sections).chapterCount + SumCounts(Tail(sections))

\* The files of folder d that the builder turns into no chapter entry.
SkippedFiles(d) ==
    {f \in tree[d] : ~f.readable \/ get_chapter_number(builder, f.name) = NoNumber}

\* C15: in the manifest a builder returns, and while it is being built,
\* totalChapters is the sum of the sections' chapterCount and each
\* chapterCount is the length of that section's chapters list.
C15_TotalIsSumOfCounts ==
    (manPc = "sections" \/ Returned) =>
        /\ manifest.totalChapters = SumCounts(manifest.sections)
        /\ \A i \in 1..Len(manifest.sections) :
              manifest.sections[i].chapterCount = Len(manifest.sections[i].chapters)

\* A manifest of two sections and two chapters was returned for a tree in
\* which a listed file was skipped.
C15_Witness ==
    /\ Returned
    /\ Len(manifest.sections) = 2
    /\ manifest.totalChapters = 2
    /\ \E d \in DOMAIN tree : Scanned(builder, d) /\ SkippedFiles(d) # {}

\* The folder name as the builder's convention reads it gives no division.
Unparseable(b, d) == division_info(b, d).id \in {None, "unknown"}

\* C16: once the run is over, every scanned division folder (one that holds
\* chapter files) whose name the convention cannot parse has a section with
\* sectionId 'unknown' and the raw folder name as its name; the run did not
\* abort.
C16_UnparsedFolderKept ==
    /\ manPc # "aborted"
    /\ (Returned \/ manPc = "returned_none") /\ manRoot =>
          \A d \in DOMAIN tree :
              (Scanned(builder, d) /\ tree[d] # {} /\ Unparseable(builder, d)) =>
                  /\ Returned
                  /\ \E i \in 1..Len(manifest.sections) :
                        /\ manifest.sections[i].sectionId = "unknown"
                        /\ manifest.sections[i].sectionName = [label |-> <<>>, name |-> d]

\* C17: every chapter entry of a returned manifest comes from a file whose
\* name matches the chapter-number convention and carries the number parsed
\* from that name; a file that does not match has no entry.
C17_EntriesCarryParsedNumber ==
    Returned =>
        \A i \in 1..Len(manifest.sections) :
            \A j \in 1..Len(manifest.sections[i].chapters) :
                LET c == manifest.sections[i].chapters[j]
                IN  /\ parse_chapter(builder, c.file) # NoNumber
                    /\ c.chapterNumber = parse_chapter(builder, c.file)

\* C18: in a returned manifest the sections with an integer sectionId are in
\* non-decreasing numeric order of sectionId.
C18_NumericSectionsInOrder ==
    Returned =>
        \A i, j \in 1..Len(manifest.sections) :
            (/\ i < j
             /\ IsNumber(manifest.sections[i].sectionId)
             /\ IsNumber(manifest.sections[j].sectionId))
              => int(manifest.sections[i].sectionId) <= int(manifest.sections[j].sectionId)

(***************************************************************************)
(* clean_response_text (the metadata generators of scripts/)               *)
(***************************************************************************)
MaxParts == 4      \* pieces a model response is put together from

\* [\x00-\x1F\x7F]
IsControlChar(c) == c \in {"\t", "\n"}

\* re.sub(r'[\x00-\x1F\x7F]', '', text)
remove_control(text) == SelectSeq(text, LAMBDA c : ~IsControlChar(c))

\* "BQ" is the backquote character; Fence is the markdown fence marker.
Fence == <<"BQ", "BQ", "BQ">>
JsonWord == <<"j", "s", "o", "n">>

HasPrefix(t, p) == Len(t) >= Len(p) /\ SubSeq(t, 1, Len(p)) = p
HasSuffix(t, p) == Len(t) >= Len(p) /\ SubSeq(t, Len(t) - Len(p) + 1, Len(t)) = p
Drop(t, n) == SubSeq(t, n + 1, Len(t))

\* re.sub(r'^FENCE(json)?\s*', '', t), FENCE being three backquotes
sub_leading_fence(t) ==
    IF ~HasPrefix(t, Fence) THEN t
    ELSE LET a == Drop(t, Len(Fence))
             b == IF HasPrefix(a, JsonWord) THEN Drop(a, Len(JsonWord)) ELSE a
         IN  lstrip(b)

\* re.sub(r'\s*FENCE$', '', t)
sub_trailing_fence(t) ==
    IF ~HasSuffix(t, Fence) THEN t
    ELSE rstrip(SubSeq(t, 1, Len(t) - Len(Fence)))

\* str.find: the 0-based index of the first occurrence, or -1.
find(t, c) ==
    LET S == {i \in 1..Len(t) : t[i] = c}
    IN  IF S = {} THEN -1 ELSE (CHOOSE i \in S : \A j \in S : i <= j) - 1

\* The closing brace looked up with find instead of rfind.
rfind_First(t, c) == find(t, c)

\* str.rfind: the 0-based index of the last occurrence, or -1.
rfind(t, c) ==
    LET S == {i \in 1..Len(t) : t[i] = c}
    IN  IF S = {} THEN -1 ELSE (CHOOSE i \in S : \A j \in S : i >= j) - 1

clean_response_text(text) ==
    LET t1 == remove_control(text)
        t2 == sub_leading_fence(strip(t1))
        t3 == sub_trailing_fence(t2)
        first_brace == find(t3, "{")
        last_brace == rfind(t3, "}")
    IN  IF first_brace # -1 /\ last_brace # -1 /\ last_brace > first_brace
        THEN SubSeq(t3, first_brace + 1, last_brace + 1)
        ELSE <<>>

\* The pieces model responses are made of.
ResponsePieces == {Fence, JsonWord, <<"{">>, <<"}">>, <<"x">>, <<" ">>, <<"\n">>}

RECURSIVE ResponsesUpTo(_)
ResponsesUpTo(k) ==
    IF k = 0 THEN {<<>>}
    ELSE LET S == ResponsesUpTo(k - 1)
         IN  S \cup {s \o p : s \in S, p \in ResponsePieces}

\* cleaned_response = clean_response_text(response_text)
clean_call ==
    /\ cleanPc = "response"
    /\ cleaned_response' = clean_response_text(response_text)
    /\ cleanPc' = "cleaned"
    /\ UNCHANGED response_text
    /\ UNCHANGED <<walkVars, isoVars, segVars, manVars, restVars>>

\* if not cleaned_response: raise ValueError(...); else on to json.loads.
check_cleaned ==
    /\ cleanPc = "cleaned"
    /\ cleanPc' = IF cleaned_response = <<>> THEN "value_error" ELSE "json_loads"
    /\ UNCHANGED <<response_text, cleaned_response>>
    /\ UNCHANGED <<walkVars, isoVars, segVars, manVars, restVars>>

CleanInit ==
    /\ response_text \in ResponsesUpTo(MaxParts)
    /\ cleaned_response = <<>>
    /\ cleanPc = "response"
    /\ WalkIdle /\ IsoIdle /\ SegIdle /\ ManIdle /\ RestIdle

CleanNext ==
    \/ clean_call
    \/ check_cleaned

CleanSpec == CleanInit /\ [][CleanNext]_vars

Cleaned == cleanPc \in {"cleaned", "value_error", "json_loads"}

\* The response as the claim reads it: its control characters taken out.
Visible(text) == SelectSeq(text, LAMBDA c : c \notin {"\t", "\n"})

Opens(t) == {i \in 1..Len(t) : t[i] = "{"}
Closes(t) == {j \in 1..Len(t) : t[j] = "}"}

BraceSpan(t) == \E i \in Opens(t), j \in Closes(t) : i < j

\* C19: for a response with a '{' followed later by a '}',
\* clean_response_text returns exactly the text from the first '{' to the
\* last '}' inclusive, control characters removed, so commentary and fence
\* markers outside the braces are not in the result; for every other
\* response it returns the empty string.
C19_FirstToLastBrace ==
    Cleaned =>
        LET t == Visible(response_text)
        IN  IF BraceSpan(t)
            THEN cleaned_response =
                   SubSeq(t, CHOOSE i \in Opens(t) : \A k \in Opens(t) : i <= k,
                             CHOOSE j \in Closes(t) : \A k \in Closes(t) : j >= k)
            ELSE cleaned_response = <<>>

C19_Witness ==
    /\ cleanPc = "cleaned"
    /\ response_text = <<"x", "{", "}">> \o Fence
    /\ cleaned_response = <<"{", "}">>

(***************************************************************************)
(* Responses that cannot be parsed (walkers with clean_response_text)      *)
(***************************************************************************)
UnparsedOutcomes == {"empty_response", "bad_json"}

\* The walker is at a PDF whose sibling .json is absent: the file is handed
\* to generate_metadata_for_file in this step.
Attempting ==
    /\ pc = "walk" /\ idx >= 1 /\ idx <= Len(pdf_files)
    /\ script \notin FixedScripts
    /\ Sibling(pdf_files[idx]) \notin disk

\* C20: when the cleaned response is empty or is not valid JSON,
\* generate_metadata_for_file returns its failure value: the walker counts the
\* file as failed (not as processed, not as skipped), no file is created or
\* changed on disk, the sibling .json of the PDF is still absent and the
\* walker's skip check would still not skip the PDF on a later walk.
C20_UnparsedResponseFails ==
    [][(Attempting /\ idx' = idx + 1 /\ outcome' \in UnparsedOutcomes)
        => /\ failed' = failed + 1
           /\ processed' = processed /\ skipped' = skipped
           /\ disk' = disk
           /\ Sibling(pdf_files[idx]) \notin disk'
           /\ SkipCheckPath(script, pdf_files[idx]) \notin disk'
           /\ \E k \in (Len(log) + 1)..Len(log') :
                 log'[k] = Event("failed", pdf_files[idx])
           /\ pc' = "walk"]_vars

\* A file whose response could not be parsed in the first walk has been
\* handed to generate_metadata_for_file again in the second walk.
C20_Witness ==
    /\ script = "create_arthasastra_metadata"
    /\ run = 2 /\ pc = "walk" /\ idx = 2
    /\ outcome \in UnparsedOutcomes
    /\ failed = 1 /\ processed = 0 /\ skipped = 0
    /\ Sibling(pdf_files[1]) \notin disk
    /\ \E k \in 1..Len(log) : log[k] = Event("call", pdf_files[1])
    /\ \E k \in 1..Len(log) : log[k] = Event("failed", pdf_files[1])

(***************************************************************************)
(* Write path and skip check                                               *)
(***************************************************************************)
\* C21: the path generate_metadata_for_file writes the metadata to is the
\* path the walker's skip check tests, for every PDF the walker lists: when
\* a file is counted as processed, the .json the skip check looks for exists,
\* so the file is skipped in the next walk.
C21_WrittenPathIsTestedPath ==
    [][(pc = "walk" /\ idx >= 1 /\ idx <= Len(pdf_files) /\ processed' = processed + 1)
        => /\ SkipCheckPath(script, pdf_files[idx]) \in disk'
           /\ (script \notin FixedScripts => Sibling(pdf_files[idx]) \in disk')]_vars

(***************************************************************************)
(* The main flow of the manifest builders                                  *)
(***************************************************************************)
\* The manifest file exists only if validate_manifest returned True on the
\* manifest that was generated, and it holds that manifest.
WrittenOnlyWhenValidated ==
    /\ output.written => (validated /\ output.manifest = manifest
                          /\ manifest.sections # <<>>)
    /\ manPc \in {"returned_none", "aborted", "invalid"} => ~output.written

\* C22: in each builder's main flow the manifest file is written only after
\* generation returned a manifest and validate_manifest returned True on it;
\* when generation returns None or validation returns False no file is
\* written; validate_manifest leaves the manifest unchanged.
C22_WriteOnlyAfterValidation ==
    /\ []WrittenOnlyWhenValidated
    /\ [][manPc = "returned" => manifest' = manifest]_vars
    /\ [][output'.written /\ ~output.written => validated]_vars

(***************************************************************************)
(* Pattern pairs of the OCR isolator                                       *)
(***************************************************************************)
\* The positions of the pairs of the OCR list whose start pattern occurs in t.
StartingPairs(t, n) == {k \in 1..Len(OcrPatterns(n)) : Occurs(t, OcrPatterns(n)[k][1])}

\* C23: the OCR isolate_chapter tries the (start, end) pairs in list order;
\* its result is cut with the first pair whose start pattern matches
\* anywhere in the text: from that start pattern's first match up to the
\* first match of the same pair's end pattern from there on, or to the end
\* of the text; when no pair's start pattern matches it returns None.
C23_FirstMatchingPairDecides ==
    (Isolated /\ variant = "ocr") =>
        IF StartingPairs(full_text, chapter_number) = {}
        THEN chapter_text = None
        ELSE LET k == Min(StartingPairs(full_text, chapter_number))
                 start == Min(HitsOf(full_text, OcrPatterns(chapter_number)[k][1]))
                 ends == {i \in HitsOf(full_text, OcrPatterns(chapter_number)[k][2]) :
                             i >= start}
             IN  /\ chapter_text # None
                 /\ chapter_text =
                      SubSeq(full_text, start,
                             IF ends = {} THEN Len(full_text) ELSE Min(ends) - 1)

\* The chapter was cut with the fourth pair: no earlier pair's start pattern
\* occurs, and the fourth pair's end pattern ends the chapter.
C23_Witness ==
    /\ Isolated /\ variant = "ocr" /\ chapter_number = 5
    /\ Min(StartingPairs(full_text, 5) \cup {9}) = 4
    /\ chapter_text # None
    /\ Len(chapter_text) < Len(full_text)
    /\ MatchAt(chapter_text, 1, OcrPatterns(5)[4][1])
    /\ ~Occurs(full_text, OcrPatterns(5)[1][2])

(***************************************************************************)
(* The two strategies of the segmenter compared                            *)
(***************************************************************************)
\* The records _extract_standard_verses emits for the lines read so far.
RECURSIVE StandardRecords(_)
StandardRecords(n) ==
    IF n = 0 THEN <<>>
    ELSE StandardRecords(n - 1) \o extract_standard_verses_line(lines[n], n)

\* C24: every record the standard strategy emits for a text is also emitted
\* by the complex strategy for that text, with the same marker, content,
\* line_number and type 'verse': complex only adds records.
C24_ComplexExtendsStandard ==
    strategy = "complex" =>
        \A r \in Range(StandardRecords(Len(lines))) :
            /\ r.type = "verse"
            /\ \E i \in 1..Len(verses) : verses[i] = r

\* The complex strategy emitted the standard record of a line "D1:D1" (the
\* marker is its first digit) and one more record that standard does not have.
C24_Witness ==
    /\ strategy = "complex" /\ segPc = "returned"
    /\ Len(lines) = 2 /\ lines[1] = <<"D1", ":", "D1">>
    /\ StandardRecords(2) = <<Record(<<"D1">>, <<"D1", ":", "D1">>, 1, "verse")>>
    /\ Len(verses) = 2 /\ verses[1] = Record(<<"D1">>, <<"D1", ":", "D1">>, 1, "verse")

(***************************************************************************)
(* Strategy selection                                                      *)
(***************************************************************************)
RECURSIVE ComplexRecords(_)
ComplexRecords(n) ==
    IF n = 0 THEN <<>>
    ELSE ComplexRecords(n - 1) \o extract_complex_verses_line(lines[n], n)

\* C25: get_parsing_strategy returns the table's recommended strategy for a
\* listed scripture name and 'standard' for every other name; extract_verses
\* runs the complex segmenter only when that value is 'complex' and the
\* standard segmenter for any other value.
C25_StrategyIsLookup ==
    segPc \in {"loop", "returned"} =>
        /\ scripture_name \in DOMAIN lookup_table
              => strategy = lookup_table[scripture_name].recommendedParsingStrategy
        /\ scripture_name \notin DOMAIN lookup_table => strategy = "standard"
        /\ strategy = "complex" => verses = ComplexRecords(Len(lines))
        /\ strategy # "complex" => verses = StandardRecords(Len(lines))

\* A listed scripture whose profile says 'hybrid' was segmented with the
\* standard segmenter: the verse-end line DANDA D1 DANDA gave no record.
C25_Witness ==
    /\ segPc = "returned"
    /\ scripture_name \in DOMAIN lookup_table /\ strategy = "hybrid"
    /\ Len(lines) = 2 /\ lines[1] = <<"DANDA", "D1", "DANDA">> /\ lines[2] = <<"1", ".">>
    /\ Len(verses) = 1

(***************************************************************************)
(* practicalAdvice post-processing (create_panchatantra_metadata.py and    *)
(* the other generators that have it)                                      *)
(*                                                                         *)
(* A JSON value is a record: kind "str", "int", "null" or "dict"; text is  *)
(* the characters of a string or the digits of a number; fields are the    *)
(* (key, value) pairs of an object in document order.                      *)
(***************************************************************************)
MaxAdvice == 2     \* items of a practicalAdvice list

Str(t) == [kind |-> "str", text |-> t, fields |-> <<>>]
Num(t) == [kind |-> "int", text |-> t, fields |-> <<>>]
Null == [kind |-> "null", text |-> <<>>, fields |-> <<>>]
Dict(f) == [kind |-> "dict", text |-> <<>>, fields |-> f]

\* bool(v)
Truthy(v) ==
    CASE v.kind = "str" -> v.text # <<>>
      [] v.kind = "int" -> v.text # <<"0">>
      [] v.kind = "null" -> FALSE
      [] v.kind = "dict" -> v.fields # <<>>

\* repr() of a string, a number or None.
repr_scalar(v) ==
    CASE v.kind = "str" -> <<"'">> \o v.text \o <<"'">>
      [] v.kind = "int" -> v.text
      [] OTHER -> <<"None">>

\* The inside of repr() of a dict, from its i-th pair on.
RECURSIVE repr_fields(_, _)
repr_fields(f, i) ==
    IF i > Len(f) THEN <<>>
    ELSE (IF i > 1 THEN <<",", " ">> ELSE <<>>)
         \o <<"'", f[i][1], "'", ":", " ">> \o repr_scalar(f[i][2])
         \o repr_fields(f, i + 1)

\* str(v)
py_str(v) ==
    CASE v.kind = "str" -> v.text
      [] v.kind = "int" -> v.text
      [] v.kind = "null" -> <<"None">>
      [] v.kind = "dict" -> <<"{">> \o repr_fields(v.fields, 1) \o <<"}">>

\* item.get(k): the value under key k, None when the key is absent.
dict_get(item, k) ==
    LET S == {i \in 1..Len(item.fields) : item.fields[i][1] = k}
    IN  IF S = {} THEN Null
        ELSE item.fields[CHOOSE i \in S : \A j \in S : i <= j][2]

\* a or b
Or(a, b) == IF Truthy(a) THEN a ELSE b

\* The loop body taking the first candidate key that is present, whatever
\* its value, and its "if text:" then dropping an empty one.
fix_advice_item_PresentKey(item) ==
    IF item.kind = "str" THEN <<item>>
    ELSE IF item.kind = "dict"
    THEN LET has(k) == \E i \in 1..Len(item.fields) : item.fields[i][1] = k
             text == IF has("point") THEN dict_get(item, "point")
                     ELSE IF has("advice") THEN dict_get(item, "advice")
                     ELSE IF has("text") THEN dict_get(item, "text")
                     ELSE Str(py_str(item))
         IN  IF Truthy(text) THEN <<Str(py_str(text))>> ELSE <<>>
    ELSE <<Str(py_str(item))>>

\* One iteration of "for item in practical_advice": what it appends to
\* fixed_advice.
fix_advice_item(item) ==
    IF item.kind = "str" THEN <<item>>
    ELSE IF item.kind = "dict"
    THEN LET text == Or(dict_get(item, "point"),
                        Or(dict_get(item, "advice"),
                           Or(dict_get(item, "text"), Str(py_str(item)))))
         IN  IF Truthy(text) THEN <<Str(py_str(text))>> ELSE <<>>
    ELSE <<Str(py_str(item))>>

RECURSIVE fix_advice_loop(_, _)
fix_advice_loop(advice, i) ==
    IF i > Len(advice) THEN <<>>
    ELSE fix_advice_item(advice[i]) \o fix_advice_loop(advice, i + 1)

\* The values a candidate key can hold.
AdviceValues == {Str(<<>>), Str(<<"a">>), Num(<<"5">>)}

\* The pair for key k, or no pair.
FieldChoices(k) == {<<>>} \cup {<< <<k, v>> >> : v \in AdviceValues}

\* The items of a practicalAdvice list: strings, objects with any of the
\* candidate keys, an object with another key, a number and null.
AdviceItems ==
    {Dict(p \o a \o t) : p \in FieldChoices("point"), a \in FieldChoices("advice"),
                         t \in FieldChoices("text")}
    \cup {Dict(<< <<"note", Str(<<"n">>)>> >>), Str(<<"s">>), Num(<<"7">>), Null}

RECURSIVE AdviceLists(_)
AdviceLists(k) ==
    IF k = 0 THEN {<<>>}
    ELSE LET S == AdviceLists(k - 1)
         IN  S \cup {Append(l, x) : l \in S, x \in AdviceItems}

\* The "Fix practicalAdvice format" block on a metadata whose deeperInsights
\* is a dict and whose practicalAdvice is a list: an empty list is falsy and
\* is left as it is.
adv_fix ==
    /\ advPc = "parsed"
    /\ fixed_advice' = IF practical_advice = <<>> THEN practical_advice
                       ELSE fix_advice_loop(practical_advice, 1)
    /\ advPc' = "fixed"
    /\ UNCHANGED practical_advice
    /\ UNCHANGED <<walkVars, isoVars, segVars, manVars, cleanVars, ramVars>>

AdviceInit ==
    /\ practical_advice \in AdviceLists(MaxAdvice)
    /\ fixed_advice = <<>>
    /\ advPc = "parsed"
    /\ WalkIdle /\ IsoIdle /\ SegIdle /\ ManIdle /\ CleanIdle /\ RamIdle

AdviceNext == adv_fix

AdviceSpec == AdviceInit /\ [][AdviceNext]_vars

CandidateKeys == <<"point", "advice", "text">>

HasKey(item, k) == \E i \in 1..Len(item.fields) : item.fields[i][1] = k

ValueOf(item, k) == item.fields[CHOOSE i \in 1..Len(item.fields) : item.fields[i][1] = k][2]

NonEmptyValue(v) ==
    \/ v.kind = "str" /\ v.text # <<>>
    \/ v.kind = "int" /\ v.text # <<"0">>

\* The text of string or number v, or the Python string form of object v.
AsText(v) ==
    IF v.kind \in {"str", "int"} THEN v.text
    ELSE IF v.kind = "null" THEN <<"None">>
    ELSE <<"{">> \o repr_fields(v.fields, 1) \o <<"}">>

\* The string an object item is to become when the candidate keys that
\* count are those satisfying Counts.
Coerced(item, Counts(_)) ==
    LET ks == {k \in 1..Len(CandidateKeys) : Counts(CandidateKeys[k])}
    IN  IF ks = {} THEN Str(AsText(item))
        ELSE Str(AsText(ValueOf(item, CandidateKeys[CHOOSE k \in ks : \A h \in ks : k <= h])))

SameLengthStrings ==
    /\ Len(fixed_advice) = Len(practical_advice)
    /\ \A i \in 1..Len(fixed_advice) : fixed_advice[i].kind = "str"
    /\ \A i \in 1..Len(practical_advice) :
          practical_advice[i].kind = "str" => fixed_advice[i] = practical_advice[i]

\* C26 (as stated): after the post-processing of a non-empty practicalAdvice
\* list the field is a list of strings of the same length and order; string
\* items are unchanged and every object item has become one string: the
\* value of its first present candidate key, else the object's string form.
C26_ObjectsBecomeFirstPresentKey ==
    (advPc = "fixed" /\ practical_advice # <<>>) =>
        /\ SameLengthStrings
        /\ \A i \in 1..Len(practical_advice) :
              practical_advice[i].kind = "dict" =>
                 fixed_advice[i] =
                    Coerced(practical_advice[i],
                            LAMBDA k : HasKey(practical_advice[i], k))

\* C26 (amended): as above, but an object item becomes the string form of
\* the value of its first candidate key whose value is non-empty (a
\* non-empty string or a non-zero number); when no candidate key has such a
\* value, also when one is present with an empty value, it becomes the
\* object's string form.
C26_ObjectsBecomeFirstNonEmptyKey ==
    (advPc = "fixed" /\ practical_advice # <<>>) =>
        /\ SameLengthStrings
        /\ \A i \in 1..Len(practical_advice) :
              practical_advice[i].kind = "dict" =>
                 fixed_advice[i] =
                    Coerced(practical_advice[i],
                            LAMBDA k : /\ HasKey(practical_advice[i], k)
                                       /\ NonEmptyValue(ValueOf(practical_advice[i], k)))

\* A list of a string and an object whose "point" is empty and whose
\* "advice" is "a" became the two strings "s" and "a".
C26_Witness ==
    /\ advPc = "fixed"
    /\ practical_advice =
         <<Str(<<"s">>), Dict(<< <<"point", Str(<<>>)>>, <<"advice", Str(<<"a">>)>> >>)>>
    /\ fixed_advice = <<Str(<<"s">>), Str(<<"a">>)>>

(***************************************************************************)
(* parse_ramayana_text (chapterize_ramayana.py)                            *)
(*                                                                         *)
(* An input line is a record: kind "header" (its stripped text starts with *)
(* '#'), "verse" (it holds a reference R_kanda,sarga.verse, ref being the  *)
(* pair) or "text" (anything else, an empty line included); id is its line *)
(* number, so that no two lines of a file are the same text.  A joined     *)
(* sarga text is the sequence of its lines.                                *)
(***************************************************************************)
MaxRamLines == 4   \* lines of the text file

NoSarga == <<0, 0>>                        \* current_kanda, current_sarga = None
SargaRefs == {<<1, 1>>, <<1, 2>>, <<2, 1>>}

LineShapes ==
    {[kind |-> "header", ref |-> NoSarga], [kind |-> "text", ref |-> NoSarga]}
    \cup {[kind |-> "verse", ref |-> r] : r \in SargaRefs}

RamLine(shape, n) == [kind |-> shape.kind, ref |-> shape.ref, id |-> n]

RECURSIVE RamFiles(_)
RamFiles(k) ==
    IF k = 0 THEN {<<>>}
    ELSE LET S == RamFiles(k - 1)
         IN  S \cup {Append(f, RamLine(s, Len(f) + 1)) : f \in {g \in S : Len(g) = k - 1},
                                                         s \in LineShapes}

\* chapters[kanda][sarga] = text: an assignment, replacing what the key held.
store_sarga(chs, key, text) ==
    LET S == {i \in 1..Len(chs) : chs[i][1] = key}
    IN  IF S = {} THEN Append(chs, <<key, text>>)
        ELSE [chs EXCEPT ![CHOOSE i \in S : TRUE] = <<key, text>>]

\* One iteration of "for line_num, line in enumerate(lines, 1)".
ram_line ==
    /\ ramPc = "loop"
    /\ ram_idx < Len(ram_lines)
    /\ LET line == ram_lines[ram_idx + 1]
       IN  /\ ram_idx' = ram_idx + 1
           /\ IF line.kind = "header"
              THEN UNCHANGED <<current, current_sarga_lines, ram_chapters>>
              ELSE IF line.kind = "verse"
              THEN LET changes == current # NoSarga /\ line.ref # current
                   IN  /\ ram_chapters' =
                            IF changes /\ current_sarga_lines # <<>>
                            THEN store_sarga(ram_chapters, current, current_sarga_lines)
                            ELSE ram_chapters
                       /\ current' = line.ref
                       /\ current_sarga_lines' =
                            Append(IF changes THEN <<>> ELSE current_sarga_lines, line)
              ELSE /\ current_sarga_lines' =
                        IF current # NoSarga THEN Append(current_sarga_lines, line)
                        ELSE current_sarga_lines
                   /\ UNCHANGED <<current, ram_chapters>>
    /\ UNCHANGED <<ram_lines, ramPc>>
    /\ UNCHANGED <<walkVars, isoVars, segVars, manVars, cleanVars, adviceVars>>

\* After the loop: "Don't forget the last sarga", then return chapters.
ram_finish ==
    /\ ramPc = "loop"
    /\ ram_idx = Len(ram_lines)
    /\ ram_chapters' = IF current # NoSarga /\ current_sarga_lines # <<>>
                       THEN store_sarga(ram_chapters, current, current_sarga_lines)
                       ELSE ram_chapters
    /\ ramPc' = "returned"
    /\ UNCHANGED <<ram_lines, ram_idx, current, current_sarga_lines>>
    /\ UNCHANGED <<walkVars, isoVars, segVars, manVars, cleanVars, adviceVars>>

RamInit ==
    /\ ram_lines \in RamFiles(MaxRamLines)
    /\ ram_idx = 0
    /\ current = NoSarga
    /\ current_sarga_lines = <<>>
    /\ ram_chapters = <<>>
    /\ ramPc = "loop"
    /\ WalkIdle /\ IsoIdle /\ SegIdle /\ ManIdle /\ CleanIdle /\ AdviceIdle

RamNext == ram_line \/ ram_finish

RamSpec == RamInit /\ [][RamNext]_vars

\* The lines that are to be kept: the non-header lines at or after the first
\* verse-reference line that is not a header.
KeptLines ==
    {i \in 1..Len(ram_lines) :
        /\ ram_lines[i].kind # "header"
        /\ \E j \in 1..i : ram_lines[j].kind = "verse"}

\* The places of the result holding line l.
PlacesOf(l) ==
    {<<c, j>> \in (1..Len(ram_chapters)) \X (1..MaxRamLines + 1) :
        j <= Len(ram_chapters[c][2]) /\ ram_chapters[c][2][j] = l}

\* C27: parse_ramayana_text loses no text: every non-header line at or after
\* the first verse-reference line appears exactly once, unmodified and in its
\* original order, in the text stored for exactly one (kanda, sarga) key,
\* also when a (kanda, sarga) reference reappears after another sarga.
C27_NoTextLost ==
    ramPc = "returned" =>
        /\ \A i \in KeptLines : Cardinality(PlacesOf(ram_lines[i])) = 1
        /\ \A c \in 1..Len(ram_chapters) :
              \A j, k \in 1..Len(ram_chapters[c][2]) :
                 j < k => ram_chapters[c][2][j].id < ram_chapters[c][2][k].id

(***************************************************************************)
(* Tallies of the walk                                                     *)
(***************************************************************************)
\* The for loop has gone on from the file at idx to the next one.
FileVisited == pc = "walk" /\ idx' = idx + 1

TallyStep(now, next) == next = now + 1

\* C28: at every point of a walk processed + skipped + failed is the number
\* of files visited so far; each visited file increments exactly one of the
\* three counters, by one; when the summary is reached the sum is the length
\* of the file list.
C28_TalliesCountVisits ==
    /\ [](pc = "walk" => processed + skipped + failed = idx - 1)
    /\ [][FileVisited =>
            \/ TallyStep(processed, processed') /\ UNCHANGED <<skipped, failed>>
            \/ TallyStep(skipped, skipped') /\ UNCHANGED <<processed, failed>>
            \/ TallyStep(failed, failed') /\ UNCHANGED <<processed, skipped>>]_vars
    /\ [](SummaryReached => processed + skipped + failed = Len(pdf_files))

\* A finished walk over three files: one skipped, one processed, one failed.
C28_Witness ==
    /\ SummaryReached
    /\ processed = 1 /\ skipped = 1 /\ failed = 1

(***************************************************************************)
(* The rate-limit sleep                                                    *)
(***************************************************************************)
\* C29: the rate-limit sleep is executed only when at least one more API
\* call follows later in the same walk: once the walk has reached its
\* summary, every sleep of its log is followed by a call, so no sleep comes
\* after the last call, whatever sibling .json files exist.
C29_SleepOnlyBeforeAnotherCall ==
    SummaryReached =>
        \A i \in 1..Len(log) :
            log[i].ev = "sleep" => \E j \in (i + 1)..Len(log) : log[j].ev = "call"

(***************************************************************************)
(* chapterId and chapterNumber                                             *)
(***************************************************************************)
\* The integer whose decimal string is s.
DecimalValue(s) == CHOOSE n \in {0, 1, 2, 3, 10, 999} : str(n) = s

\* C30: in every manifest a builder produces, each chapter entry's chapterId
\* is the decimal string of that entry's chapterNumber, also for a file whose
\* name carries no parseable chapter number.
C30_ChapterIdIsChapterNumber ==
    (manPc = "sections" \/ Returned) =>
        \A i \in 1..Len(manifest.sections) :
            \A j \in 1..Len(manifest.sections[i].chapters) :
                LET c == manifest.sections[i].chapters[j]
                IN  DecimalValue(c.chapterId) = c.chapterNumber

====
